---- MODULE Spec2Model ----
(***************************************************************************)
(* A model of the yengine adapter for the Yate external-module protocol:   *)
(* the textual wire format (format/), the topic classifier (engine/topic), *)
(* the subscriber hub over the single inbound line stream (subable/) and   *)
(* the engine facade (engine/mod.rs).                                      *)
(*                                                                         *)
(* Text is modelled as sequences of character codes, so that splitting a   *)
(* line on ':' and parsing a segment are computed as the code computes     *)
(* them.  A u64 is kept as its canonical decimal digits.                   *)
(***************************************************************************)
EXTENDS Integers, Sequences, FiniteSets, TLC

----------------------------------------------------------------------------
(* Characters.                                                             *)

Colon == 58
Percent == 37
Equals == 61
Plus == 43
LF == 10
Digit0 == 48
Digit9 == 57
UpcodeShift == 64
AsciiSpace == 32
AsciiDel == 127

TagInstall == <<37,37,62,105,110,115,116,97,108,108>>  \* "%%>install"
TagInstallAck == <<37,37,60,105,110,115,116,97,108,108>>  \* "%%<install"
TagUninstallAck == <<37,37,60,117,110,105,110,115,116,97,108,108>>  \* "%%<uninstall"
TagWatchAck == <<37,37,60,119,97,116,99,104>>  \* "%%<watch"
TagUnwatchAck == <<37,37,60,117,110,119,97,116,99,104>>  \* "%%<unwatch"
TagSetLocal == <<37,37,62,115,101,116,108,111,99,97,108>>  \* "%%>setlocal"
TagSetLocalAck == <<37,37,60,115,101,116,108,111,99,97,108>>  \* "%%<setlocal"
TagMessage == <<37,37,62,109,101,115,115,97,103,101>>  \* "%%>message"
TagMessageAck == <<37,37,60,109,101,115,115,97,103,101>>  \* "%%<message"
TagQuitAck == <<37,37,60,113,117,105,116>>  \* "%%<quit"
TagQuit == <<37,37,62,113,117,105,116>>  \* "%%>quit"
TagErrorIn == <<69,114,114,111,114,32,105,110>>  \* "Error in"
StrTrue == <<116,114,117,101>>  \* "true"
StrFalse == <<102,97,108,115,101>>  \* "false"
U64Max == <<49,56,52,52,54,55,52,52,48,55,51,55,48,57,53,53,49,54,49,53>>  \* "18446744073709551615"

----------------------------------------------------------------------------
(* format/upcode.rs: the %-escapes.                                        *)

\* char::is_ascii_control: the codes 0..31 and 127
is_ascii_control(ch) == ch < AsciiSpace \/ ch = AsciiDel

\* a predicate that leaves ':' as it is
predNoColon(ch) == is_ascii_control(ch) \/ ch = Percent

\* the predicate of encode: the characters that are escaped
pred(ch) == is_ascii_control(ch) \/ ch = Percent \/ ch = Colon

upencode(ch) == IF ch = Percent THEN ch ELSE ch + UpcodeShift

RECURSIVE encode(_)
encode(value) ==
    IF value = <<>> THEN <<>>
    ELSE (IF pred(Head(value)) THEN <<Percent, upencode(Head(value))>>
                               ELSE <<Head(value)>>) \o encode(Tail(value))

\* an updecode with no upper limit
updecodeWide(ch) ==
    IF ch = Percent THEN [ok |-> TRUE, v |-> ch]
    ELSE IF ch >= UpcodeShift THEN [ok |-> TRUE, v |-> ch - UpcodeShift]
    ELSE [ok |-> FALSE, err |-> ch]

\* updecode(ch): the character, or the DecodeError that carries it
updecode(ch) ==
    IF ch = Percent THEN [ok |-> TRUE, v |-> ch]
    ELSE IF ch >= UpcodeShift /\ ch <= AsciiDel
         THEN [ok |-> TRUE, v |-> ch - UpcodeShift]
    ELSE [ok |-> FALSE, err |-> ch]

\* the loop of decode over the characters left, `decoding` being set
\* after a '%'
RECURSIVE decode_chars(_, _, _)
decode_chars(value, decoding, decoded) ==
    IF value = <<>> THEN [ok |-> TRUE, v |-> decoded]
    ELSE IF decoding
    THEN (IF updecode(Head(value)).ok
          THEN decode_chars(Tail(value), FALSE,
                            Append(decoded, updecode(Head(value)).v))
          ELSE updecode(Head(value)))
    ELSE IF Head(value) = Percent THEN decode_chars(Tail(value), TRUE, decoded)
    ELSE decode_chars(Tail(value), FALSE, Append(decoded, Head(value)))

decode(value) ==
    IF \A i \in 1..Len(value) : value[i] # Percent THEN [ok |-> TRUE, v |-> value]
    ELSE decode_chars(value, FALSE, <<>>)

----------------------------------------------------------------------------
(* Helpers on text.                                                        *)

\* str::split(d): the segments between the occurrences of d (never empty)
RECURSIVE split(_, _)
split(s, d) ==
    IF \A i \in 1..Len(s) : s[i] # d THEN <<s>>
    ELSE LET i == CHOOSE k \in 1..Len(s) :
                      s[k] = d /\ \A j \in 1..(k - 1) : s[j] # d
         IN  <<SubSeq(s, 1, i - 1)>> \o split(SubSeq(s, i + 1, Len(s)), d)

\* str::split_once(d): "none", or the text before and after the first d
split_once(s, d) ==
    IF \A i \in 1..Len(s) : s[i] # d THEN [some |-> FALSE]
    ELSE LET i == CHOOSE k \in 1..Len(s) :
                      s[k] = d /\ \A j \in 1..(k - 1) : s[j] # d
         IN  [some |-> TRUE, k |-> SubSeq(s, 1, i - 1), v |-> SubSeq(s, i + 1, Len(s))]

\* [String]::join(d)
RECURSIVE join(_, _)
join(parts, d) ==
    IF parts = <<>> THEN <<>>
    ELSE IF Len(parts) = 1 THEN parts[1]
    ELSE parts[1] \o <<d>> \o join(Tail(parts), d)

\* the order of String (byte-wise lexicographic), the order of a BTreeMap's keys
RECURSIVE StrLess(_, _)
StrLess(a, b) ==
    IF b = <<>> THEN FALSE
    ELSE IF a = <<>> THEN TRUE
    ELSE IF Head(a) # Head(b) THEN Head(a) < Head(b)
    ELSE StrLess(Tail(a), Tail(b))

IsDigits(s) == \A i \in 1..Len(s) : s[i] >= Digit0 /\ s[i] <= Digit9

RECURSIVE StripZeros(_)
StripZeros(s) ==
    IF Len(s) > 1 /\ Head(s) = Digit0 THEN StripZeros(Tail(s)) ELSE s

\* <u64 as FromStr>::from_str: an optional '+', then digits, at most u64::MAX;
\* the value is kept as its canonical digits
U64OfDigits(body, canon) ==
    IF body = <<>> \/ ~IsDigits(body) THEN [ok |-> FALSE]
    ELSE IF Len(canon) > Len(U64Max)
              \/ (Len(canon) = Len(U64Max) /\ StrLess(U64Max, canon))
         THEN [ok |-> FALSE]
    ELSE [ok |-> TRUE, v |-> canon]

Unsigned(s) == IF s # <<>> /\ Head(s) = Plus THEN Tail(s) ELSE s

ParseU64(s) == U64OfDigits(Unsigned(s), StripZeros(Unsigned(s)))

\* <bool as FromStr>::from_str
ParseBool(s) ==
    IF s = StrTrue THEN [ok |-> TRUE, v |-> TRUE]
    ELSE IF s = StrFalse THEN [ok |-> TRUE, v |-> FALSE]
    ELSE [ok |-> FALSE]

\* Display of a scalar
ScalarText(kind, v) ==
    IF kind = "bool" THEN (IF v THEN StrTrue ELSE StrFalse) ELSE v

----------------------------------------------------------------------------
(* format/mod.rs: the shapes of the records, as reflection sees them.      *)
(* The facade names the records Message, MessageAck and Install; the        *)
(* fields of MessageAck are those of the struct literals of engine/mod.rs   *)
(* (id, processed, name, retvalue, kv), in the order the fixtures of        *)
(* format/tests.rs round-trip, and the filter of Install is a trailing      *)
(* field that may be absent, as in those fixtures.                          *)

ScalarShape(kind) == [def |-> "Scalar", kind |-> kind]
OptionShape(inner) == [def |-> "Option", inner |-> inner]
MapShape == [def |-> "Map"]
StructShape(tag, fields) == [def |-> "Struct", tag |-> tag, fields |-> fields]
Field(name, shape, has_default) ==
    [name |-> name, shape |-> shape, has_default |-> has_default]

NoTag == <<>>
None == [some |-> FALSE]
Some(v) == [some |-> TRUE, v |-> v]

ErrorIn == StructShape(TagErrorIn,
    << Field("original", ScalarShape("String"), FALSE) >>)

Message == StructShape(TagMessage,
    << Field("id", ScalarShape("String"), FALSE),
       Field("time", ScalarShape("u64"), FALSE),
       Field("name", ScalarShape("String"), FALSE),
       Field("retvalue", ScalarShape("String"), FALSE),
       Field("kv", MapShape, FALSE) >>)

MessageAck == StructShape(TagMessageAck,
    << Field("id", ScalarShape("String"), FALSE),
       Field("processed", ScalarShape("bool"), FALSE),
       Field("name", OptionShape(ScalarShape("String")), FALSE),
       Field("retvalue", ScalarShape("String"), FALSE),
       Field("kv", MapShape, FALSE) >>)

\* the filter tuple (String, Option<String>)
FilterShape == StructShape(NoTag,
    << Field("0", ScalarShape("String"), FALSE),
       Field("1", OptionShape(ScalarShape("String")), FALSE) >>)

Install == StructShape(TagInstall,
    << Field("priority", OptionShape(ScalarShape("u64")), FALSE),
       Field("name", ScalarShape("String"), FALSE),
       Field("filter", OptionShape(FilterShape), TRUE) >>)

InstallAck == StructShape(TagInstallAck,
    << Field("priority", ScalarShape("u64"), FALSE),
       Field("name", ScalarShape("String"), FALSE),
       Field("success", ScalarShape("bool"), FALSE) >>)

UninstallAck == StructShape(TagUninstallAck,
    << Field("priority", ScalarShape("u64"), FALSE),
       Field("name", ScalarShape("String"), FALSE),
       Field("success", ScalarShape("bool"), FALSE) >>)

WatchAck == StructShape(TagWatchAck,
    << Field("name", ScalarShape("String"), FALSE),
       Field("success", ScalarShape("bool"), FALSE) >>)

UnwatchAck == StructShape(TagUnwatchAck,
    << Field("name", ScalarShape("String"), FALSE),
       Field("success", ScalarShape("bool"), FALSE) >>)

SetLocal == StructShape(TagSetLocal,
    << Field("name", ScalarShape("String"), FALSE),
       Field("value", OptionShape(ScalarShape("String")), FALSE) >>)

SetLocalAck == StructShape(TagSetLocalAck,
    << Field("name", ScalarShape("String"), FALSE),
       Field("value", ScalarShape("String"), FALSE),
       Field("success", ScalarShape("bool"), FALSE) >>)

QuitAck == StructShape(TagQuitAck, <<>>)

Quit == StructShape(TagQuit, <<>>)

----------------------------------------------------------------------------
(* format/de.rs: the deserializer.  A result is [ok, val, parts] or         *)
(* [ok, err]; parts is what is left of the deque.                           *)

DeOk(val, parts) == [ok |-> TRUE, val |-> val, parts |-> parts]
DeErr(err) == [ok |-> FALSE, err |-> err]

RECURSIVE DefaultOf(_)
DefaultOf(shape) ==
    CASE shape.def = "Option" -> None
      [] shape.def = "Map" -> <<>>
      [] shape.def = "Scalar" ->
            (CASE shape.kind = "bool" -> FALSE
               [] shape.kind = "u64" -> <<Digit0>>
               [] OTHER -> <<>>)
      [] shape.def = "Struct" ->
            [n \in {shape.fields[i].name : i \in 1..Len(shape.fields)} |->
                LET i == CHOOSE k \in 1..Len(shape.fields) : shape.fields[k].name = n
                IN  DefaultOf(shape.fields[i].shape)]

\* Partial::parse_from_str for the scalar kinds
parse_from_str(kind, value) ==
    CASE kind = "u64" -> ParseU64(value)
      [] kind = "bool" -> ParseBool(value)
      [] OTHER -> [ok |-> TRUE, v |-> value]

Parsed(parsed, parts) ==
    IF parsed.ok THEN DeOk(parsed.v, Tail(parts)) ELSE DeErr("Reflect")

deserialize_scalar(shape, parts) ==
    IF parts = <<>> THEN DeErr("MissingValue")
    ELSE Parsed(parse_from_str(shape.kind, Head(parts)), parts)

\* the map built from the key/value pairs, a later entry replacing an earlier
RECURSIVE MapOfPairs(_)
MapOfPairs(pairs) ==
    IF pairs = <<>> THEN <<>>
    ELSE LET last == pairs[Len(pairs)]
         IN  (last.k :> last.v) @@ MapOfPairs(SubSeq(pairs, 1, Len(pairs) - 1))

MapOrErr(pairs) ==
    IF \E i \in 1..Len(pairs) : ~pairs[i].some THEN DeErr("MisformatedMap")
    ELSE DeOk(MapOfPairs(pairs), <<>>)

deserialize_map(parts) ==
    MapOrErr([i \in 1..Len(parts) |-> split_once(parts[i], Equals)])

RECURSIVE deserialize_value(_, _, _)
RECURSIVE deserialize_fields(_, _, _, _, _)

\* partial.begin_some() ... partial.end()
EndSome(r) == IF r.ok THEN DeOk(Some(r.val), r.parts) ELSE r

deserialize_option(shape, parts, has_default) ==
    IF parts = <<>> THEN DeErr("MissingValue")
    ELSE IF Head(parts) = <<>> THEN DeOk(None, Tail(parts))
    ELSE EndSome(deserialize_value(shape.inner, parts, has_default))

\* partial.begin_nth_field(idx) ... partial.end(), then the next field
EndField(fields, i, has_default, acc, r) ==
    IF r.ok
    THEN deserialize_fields(fields, i + 1, r.parts, has_default,
                            (fields[i].name :> r.val) @@ acc)
    ELSE r

deserialize_fields(fields, i, parts, has_default, acc) ==
    IF i > Len(fields) THEN DeOk(acc, parts)
    ELSE EndField(fields, i, has_default, acc,
                  deserialize_value(fields[i].shape, parts,
                                    has_default \/ fields[i].has_default))

Tagged(shape) == shape.def = "Struct" /\ shape.tag # NoTag

\* deserialize_value once the tag has been taken from the parts
deserialize_untagged(shape, rest, has_default) ==
    IF rest = <<>> /\ has_default THEN DeOk(DefaultOf(shape), rest)
    ELSE CASE shape.def = "Struct" ->
                  deserialize_fields(shape.fields, 1, rest, has_default, <<>>)
           [] shape.def = "Scalar" -> deserialize_scalar(shape, rest)
           [] shape.def = "Option" -> deserialize_option(shape, rest, has_default)
           [] shape.def = "Map" -> deserialize_map(rest)

deserialize_value(shape, parts, has_default) ==
    IF Tagged(shape) /\ parts = <<>> THEN DeErr("MissingTag")
    ELSE IF Tagged(shape) /\ Head(parts) # shape.tag THEN DeErr("MismatchedTag")
    ELSE deserialize_untagged(shape, IF Tagged(shape) THEN Tail(parts) ELSE parts,
                              has_default)

\* Deserializer::deserialize: build and materialize
deserialize(r) == IF r.ok THEN [ok |-> TRUE, val |-> r.val] ELSE r

\* from_str::<T>(input): [ok, val] or [ok, err]
from_str(shape, input) ==
    deserialize(deserialize_value(shape, split(input, Colon), FALSE))

----------------------------------------------------------------------------
(* format/ser.rs: the serializer; a value becomes a sequence of parts.      *)

\* the keys of a map in iteration order
RECURSIVE SortedKeys(_)
SortedKeys(keys) ==
    IF keys = {} THEN <<>>
    ELSE LET least == CHOOSE k \in keys : \A o \in keys \ {k} : StrLess(k, o)
         IN  <<least>> \o SortedKeys(keys \ {least})

serialize_scalar(shape, val) == << encode(ScalarText(shape.kind, val)) >>

MapParts(val, keys) ==
    [i \in 1..Len(keys) |-> encode(keys[i]) \o <<Equals>> \o encode(val[keys[i]])]

serialize_map(val) == MapParts(val, SortedKeys(DOMAIN val))

RECURSIVE serialize_value(_, _, _)
RECURSIVE serialize_fields(_, _, _, _)

serialize_option(shape, val, has_default) ==
    IF ~val.some THEN (IF has_default THEN <<>> ELSE << <<>> >>)
    ELSE serialize_value(shape.inner, val.v, has_default)

serialize_fields(fields, i, val, has_default) ==
    IF i > Len(fields) THEN <<>>
    ELSE serialize_value(fields[i].shape, val[fields[i].name],
                         has_default \/ fields[i].has_default)
         \o serialize_fields(fields, i + 1, val, has_default)

serialize_value(shape, val, has_default) ==
    CASE shape.def = "Struct" ->
            (IF shape.tag # NoTag THEN <<shape.tag>> ELSE <<>>)
            \o serialize_fields(shape.fields, 1, val, has_default)
      [] shape.def = "Option" -> serialize_option(shape, val, has_default)
      [] shape.def = "Map" -> serialize_map(val)
      [] shape.def = "Scalar" -> serialize_scalar(shape, val)

\* to_string(&value)
to_string(shape, val) == join(serialize_value(shape, val, FALSE), Colon)

----------------------------------------------------------------------------
(* engine/topic.rs: the topic of a line.                                    *)

Topic(k, key) == [k |-> k, key |-> key]
NoKey == <<>>

\* the parses Topic::topic attempts, in its order, and the field each takes
Classifiers ==
    << [shape |-> InstallAck, k |-> "InstallAck", key |-> "name"],
       [shape |-> UninstallAck, k |-> "UninstallAck", key |-> "name"],
       [shape |-> WatchAck, k |-> "WatchAck", key |-> "name"],
       [shape |-> UnwatchAck, k |-> "UnwatchAck", key |-> "name"],
       [shape |-> SetLocalAck, k |-> "SetLocalAck", key |-> "name"],
       [shape |-> Message, k |-> "Message", key |-> ""],
       [shape |-> MessageAck, k |-> "MessageAck", key |-> "id"],
       [shape |-> QuitAck, k |-> "QuitAck", key |-> ""] >>

RECURSIVE classify(_, _)

\* `if let Ok(msg) = from_str::<T>(item) { Topic::T(msg.key) } else ...`
IfLetOk(c, msg, item, i) ==
    IF msg.ok THEN Topic(c.k, IF c.key = "" THEN NoKey ELSE msg.val[c.key])
    ELSE classify(item, i + 1)

classify(item, i) ==
    IF i > Len(Classifiers) THEN Topic("Other", NoKey)
    ELSE IfLetOk(Classifiers[i], from_str(Classifiers[i].shape, item), item, i)

topic(item) == classify(item, 1)

\* Topic::fallback; Sub::poll_next (subable/sub.rs) has no call of it
fallback(t) == IF t.k = "MessageAck" THEN Topic("Watch", NoKey) ELSE t

----------------------------------------------------------------------------
(* engine/mod.rs: what the facade builds.                                   *)

\* DefaultAck, but the message is reported processed
DefaultAckProcessed(m) ==
    [id |-> m.id, processed |-> TRUE, name |-> None,
     retvalue |-> m.retvalue, kv |-> m.kv]

\* DefaultAck, but the name of the message is echoed
DefaultAckNamed(m) ==
    [id |-> m.id, processed |-> FALSE, name |-> Some(m.name),
     retvalue |-> m.retvalue, kv |-> m.kv]

\* the MessageAck default_response builds from an unhandled Message
DefaultAck(m) ==
    [id |-> m.id, processed |-> FALSE, name |-> None,
     retvalue |-> m.retvalue, kv |-> m.kv]

\* Respond, but an `Error in` is answered with the line it reports
RespondToError(message, error_in) ==
    IF message.ok
    THEN [send |-> TRUE, log |-> "none",
          item |-> to_string(MessageAck, DefaultAck(message.val))]
    ELSE IF error_in.ok
    THEN [send |-> TRUE, log |-> "error", item |-> error_in.val.original]
    ELSE [send |-> FALSE, log |-> "warn", item |-> <<>>]

\* the arms of default_response, given the two parses of the line
Respond(message, error_in) ==
    IF message.ok
    THEN [send |-> TRUE, log |-> "none",
          item |-> to_string(MessageAck, DefaultAck(message.val))]
    ELSE IF error_in.ok THEN [send |-> FALSE, log |-> "error", item |-> <<>>]
    ELSE [send |-> FALSE, log |-> "warn", item |-> <<>>]

\* default_response(recvd): the line it sends, if it sends one
default_response(recvd) ==
    Respond(from_str(Message, recvd), from_str(ErrorIn, recvd))

\* the MessageAck ack(req, processed) builds from the Request's Message
Ack(original, processed) ==
    [id |-> original.id, processed |-> processed, name |-> Some(original.name),
     retvalue |-> original.retvalue, kv |-> original.kv]

\* the line ack(req, processed) sends for the Request made of `recvd`
ack(recvd, processed) ==
    to_string(MessageAck, Ack(from_str(Message, recvd).val, processed))

\* the line quit() sends
quit == to_string(Quit, <<>>)

\* the line install(priority, name, None) sent
install(priority, name) ==
    to_string(Install, [priority |-> priority, name |-> name, filter |-> None])

\* the line setlocal(name, value) sends
setlocal(name, value) ==
    to_string(SetLocal, [name |-> name, value |-> Some(value)])

\* the line getlocal(name) sends
getlocal(name) == to_string(SetLocal, [name |-> name, value |-> None])

----------------------------------------------------------------------------
(* The calls the tasks make and the frames the engine sends.  The parses    *)
(* of a frame are functions of its line: they are tabulated over Frames.    *)

Tasks == {"t1", "t2"}

NameA == <<97>>  \* "a"
NameB == <<98>>  \* "b"
P50 == <<53,48>>  \* "50"
P100 == <<49,48,48>>  \* "100"
FrameMessage == <<37,37,62,109,101,115,115,97,103,101,58,97,98,99,58,49,48,57,53,49,49,50,55,57,53,58,99,97,108,108,46,114,111,117,116,101,58,58,99,97,108,108,101,114,61,49>>  \* "%%>message:abc:1095112795:call.route::caller=1"
FrameWatched == <<37,37,60,109,101,115,115,97,103,101,58,97,98,99,58,102,97,108,115,101,58,99,97,108,108,46,114,111,117,116,101,58,58,99,97,108,108,101,114,61,49>>  \* "%%<message:abc:false:call.route::caller=1"
FrameAutoAck == <<37,37,60,109,101,115,115,97,103,101,58,97,98,99,58,102,97,108,115,101,58,58,58,99,97,108,108,101,114,61,49>>  \* "%%<message:abc:false:::caller=1"
FrameErrorIn == <<69,114,114,111,114,32,105,110,58,116,104,105,115,32,105,115,32,97,110,32,101,114,114,111,114>>  \* "Error in:this is an error"
FrameUnknown == <<37,37,60,98,111,103,117,115>>  \* "%%<bogus"
FrameQuitAck == <<37,37,60,113,117,105,116>>  \* "%%<quit"

\* the calls a task makes
Op(op, name, priority) == [op |-> op, name |-> name, priority |-> priority]
NoOp == Op("none", NoKey, None)
Ops(t) ==
    IF t = "t1"
    THEN { Op("install", NameA, Some(P50)), Op("messages", NoKey, None) }
    ELSE { Op("install", NameA, Some(P50)), Op("install", NameB, None),
           Op("watches", NoKey, None) }

\* the InstallAck the engine answers the request `req` with
Answer(req, success) ==
    to_string(InstallAck,
        [priority |-> IF req.priority.some THEN req.priority.v ELSE P100,
         name |-> req.name, success |-> success])

\* the install requests the tasks make
Requests == {o \in UNION {Ops(t) : t \in Tasks} : o.op = "install"}

\* the number of characters Engine::id draws
IdLen == 12

\* Engine::id: the package name ("yengine"), a dot, and the characters drawn
EngineId(drawn) == <<121,101,110,103,105,110,101>> \o <<46>> \o drawn

\* some of the ids Engine::id returns
Ids == {EngineId([i \in 1..IdLen |-> c]) : c \in {97, 48}}  \* "a", "0"

\* SystemTime::now(), in seconds: a reading of the clock
Now == <<49>>  \* "1"

\* the Message message(name, retvalue, kv) builds with the id drawn
MessageOf(drawn) ==
    [id |-> drawn, time |-> Now, name |-> NameA, retvalue |-> <<>>, kv |-> <<>>]

\* the line message(name, retvalue, kv) sends
message(drawn) == to_string(Message, MessageOf(drawn))

\* the MessageAck the engine answers the Message m with
Reply(m, processed) ==
    to_string(MessageAck,
        [id |-> m.id, processed |-> processed, name |-> Some(m.name),
         retvalue |-> m.retvalue, kv |-> m.kv])

\* the lines the engine sends
Frames ==
    {FrameMessage, FrameWatched, FrameErrorIn, FrameUnknown, FrameQuitAck}
        \cup {Answer(o, success) : o \in Requests, success \in BOOLEAN}
        \cup {Reply(MessageOf(drawn), processed) :
                  drawn \in Ids, processed \in BOOLEAN}

\* T::topic(item) for the item of each line
TopicOfItem == [line \in Frames |-> topic(line)]

\* default_response(recvd) for each line
DefaultResponse == [line \in Frames |-> default_response(line)]

\* from_str::<InstallAck>(&item) for each line
InstallAckOf == [line \in Frames |-> from_str(InstallAck, line)]

\* from_str::<MessageAck>(&item) for each line
MessageAckOf == [line \in Frames |-> from_str(MessageAck, line)]

\* ack(req, processed) for the Request of each Message line
AckOf ==
    [line \in {l \in Frames : from_str(Message, l).ok} |->
        [processed \in BOOLEAN |-> ack(line, processed)]]

----------------------------------------------------------------------------
(* subable/: the subscriber hub.  `ws` is the wakers map: a topic is        *)
(* mapped to the task whose waker its AtomicWaker holds, or to NoTask.      *)

NoTask == "none"
NoTopic == Topic("none", NoKey)

\* subscribe, but a slot already there is not diagnosed
subscribeAgain(ws, t) ==
    [panic |-> FALSE,
     wakers |-> [x \in DOMAIN ws \cup {t} |-> IF x = t THEN NoTask ELSE ws[x]]]

\* Subscriber::subscribe: the insert replaces the slot, then the old one is
\* diagnosed
subscribe(ws, t) ==
    [panic |-> t \in DOMAIN ws,
     wakers |-> [x \in DOMAIN ws \cup {t} |-> IF x = t THEN NoTask ELSE ws[x]]]

\* the drain of the wakers map: every slot is removed and its waker woken
unsubscribe_all(ws) ==
    [wakers |-> [x \in {} |-> NoTask],
     woken |-> {ws[x] : x \in DOMAIN ws} \ {NoTask}]

\* Drop for Sub, but the slot is left in the map
dropLeaving(ws, t) == ws

\* Drop for Sub
drop(ws, t) == [x \in DOMAIN ws \ {t} |-> ws[x]]

PollOutcome(register, result, pop, wake, pending_on_stream, item_topic) ==
    [register |-> register, result |-> result, pop |-> pop, wake |-> wake,
     pending_on_stream |-> pending_on_stream, topic |-> item_topic]

\* Peeked, but the item destined to another subscription is popped as well
PeekedPopping(ws, self, t) ==
    IF t \in DOMAIN ws /\ t # self
    THEN PollOutcome(TRUE, "Pending", TRUE, t, FALSE, t)
    ELSE IF t = self
    THEN PollOutcome(TRUE, "Match", TRUE, NoTopic, FALSE, t)
    ELSE PollOutcome(TRUE, "NoMatch", TRUE, NoTopic, FALSE, t)

\* Peeked, but the wakers are not looked up
PeekedUnrouted(ws, self, t) ==
    IF t = self
    THEN PollOutcome(TRUE, "Match", TRUE, NoTopic, FALSE, t)
    ELSE PollOutcome(TRUE, "NoMatch", TRUE, NoTopic, FALSE, t)

\* the arm `Some(Ok(item))` of the peek, `t` being T::topic(item)
Peeked(ws, self, t) ==
    IF t \in DOMAIN ws /\ t # self
    THEN PollOutcome(TRUE, "Pending", FALSE, t, FALSE, t)
    ELSE IF t = self
    THEN PollOutcome(TRUE, "Match", TRUE, NoTopic, FALSE, t)
    ELSE PollOutcome(TRUE, "NoMatch", TRUE, NoTopic, FALSE, t)

\* Sub::poll_next for the subscription of topic `self`, the stream holding the
\* items `stream` and having ended or not
poll_next(ws, self, stream, ended) ==
    IF self \notin DOMAIN ws
    THEN PollOutcome(FALSE, "None", FALSE, NoTopic, FALSE, NoTopic)
    ELSE IF stream = <<>>
    THEN (IF ended THEN PollOutcome(TRUE, "None", FALSE, NoTopic, FALSE, NoTopic)
                   ELSE PollOutcome(TRUE, "Pending", FALSE, NoTopic, TRUE, NoTopic))
    ELSE IF Head(stream).ok
    THEN Peeked(ws, self, TopicOfItem[Head(stream).line])
    ELSE PollOutcome(TRUE, "Err", TRUE, NoTopic, FALSE, NoTopic)

----------------------------------------------------------------------------
(* The program: tasks calling the facade over one engine connection.        *)

MaxUnsolicited == 1

\* an item of the inbound stream: Ok(line) or Err(io error)
OkItem(line) == [ok |-> TRUE, line |-> line]
ErrItem == [ok |-> FALSE, line |-> <<>>]

\* what the engine sent of its own accord
Unsolicited ==
    { OkItem(FrameMessage), OkItem(FrameWatched), OkItem(FrameErrorIn),
      OkItem(FrameUnknown), ErrItem }

\* the topic a call subscribes
TopicOf(o) ==
    CASE o.op = "install" -> Topic("InstallAck", o.name)
      [] o.op = "watches" -> Topic("Watch", NoKey)
      [] o.op = "messages" -> Topic("Message", NoKey)
      [] o.op = "quit" -> Topic("QuitAck", NoKey)
      [] o.op = "message" -> Topic("MessageAck", o.name)
      [] OTHER -> NoTopic

VARIABLES
    arrived,      \* the items the inbound stream has produced, in order
    popped,       \* how many of them poll_next has taken from the stream
    eof,          \* the inbound stream has ended
    reader,       \* the wakers given to the inbound reader: the last one,
                  \* which it holds, and those given before it
    wakers,       \* Inner::wakers
    pc,           \* where each task is in its call
    job,          \* each task's call, and the line it is sending
    sub,          \* the topic of the Sub each task holds
    sched,        \* the task has been woken and will be polled
    result,       \* what each task's call returned
    txOwner,      \* the task holding the lock of Engine::tx
    txWaiters,    \* the tasks waiting for it
    wire,         \* the characters written to the outbound stream
    engSeen,      \* the outbound lines the engine has processed
    unsolicited,  \* how many unsolicited items the engine has sent
    deliveries,   \* history: the items poll_next returned to its caller
    sent,         \* history: the lines each task's calls of Engine::send wrote
    locked,       \* history: the sends that took the lock of Engine::tx, in order
    dropped,      \* history: the Requests dropped
    fmt,          \* a call of the functions of format/: what it was given
                  \* and what it has returned
    mt,           \* the polls of the Subs of one hub by the threads of an
                  \* executor: one record per Sub, the stream and its lock
    hub,          \* a PubSub of pubsub/: its wakers, its data slot, its
                  \* publisher and the Subs that are held
    att           \* a call of Engine::attach: its connection, its three
                  \* futures and the task that polls them

\* the state of the engine facade and of its hub
engine == << arrived, popped, eof, reader, wakers, pc, job, sub, sched, result,
             txOwner, txWaiters, wire, engSeen, unsolicited, deliveries, sent,
             locked, dropped >>

vars == << engine, fmt, mt, hub, att >>

\* no function of format/ is called; no executor has threads
NoCall == [f |-> "none"]
NoThreads == [on |-> FALSE]

\* no PubSub is made
NoHub == [on |-> FALSE]

\* attach is not called
NoAttach == [on |-> FALSE]

NoResult == [st |-> "none", v |-> ""]
Ok(v) == [st |-> "ok", v |-> v]
Err(v) == [st |-> "err", v |-> v]
BoolText(b) == IF b THEN "true" ELSE "false"

\* the reader holds no waker
NoWaker == [last |-> NoTask, stale |-> {}]

\* the reader is given the waker of task t: it holds the last one given
Given(t) == [last |-> t, stale |-> (reader.stale \cup {reader.last}) \ {t, NoTask}]

Job(o, phase, item, cause) ==
    [op |-> o, phase |-> phase, item |-> item, cause |-> cause]

\* the items waiting in the stream
Stream == SubSeq(arrived, popped + 1, Len(arrived))

\* Engine::new: nothing has arrived, nothing is subscribed, no call is made
Constructed ==
    /\ arrived = <<>>
    /\ popped = 0
    /\ eof = FALSE
    /\ reader = NoWaker
    /\ wakers = [x \in {} |-> NoTask]
    /\ pc = [t \in Tasks |-> "idle"]
    /\ job = [t \in Tasks |-> Job(NoOp, "none", <<>>, 0)]
    /\ sub = [t \in Tasks |-> NoTopic]
    /\ sched = [t \in Tasks |-> FALSE]
    /\ result = [t \in Tasks |-> NoResult]
    /\ txOwner = NoTask
    /\ txWaiters = {}
    /\ wire = <<>>
    /\ engSeen = 0
    /\ unsolicited = 0
    /\ deliveries = <<>>
    /\ sent = [t \in Tasks |-> <<>>]
    /\ locked = <<>>
    /\ dropped = <<>>

Init ==
    /\ Constructed
    /\ fmt = NoCall
    /\ mt = NoThreads
    /\ hub = NoHub
    /\ att = NoAttach

----------------------------------------------------------------------------
(* engine/request.rs: the guard of a Message that must be acknowledged.     *)
(* The Message is kept as the line it was deserialized from.                *)

\* Request::new
Request(inner) == [inner |-> Some(inner)]

\* Request::into_inner: the Message is taken and `self`, left empty, goes out
\* of scope
into_inner(req) == [message |-> req.inner.v, self |-> [inner |-> None]]

\* Drop for Request, but the diagnostic is emitted whatever the Request holds
DropLoud(req) == TRUE

\* Drop for Request: whether the "not ack'ed" diagnostic is emitted
DropRequest(req) == req.inner.some

\* the record of a Request dropped: the place in the stream of the item it
\* was made of, its holder, whether ack took it, whether its drop was logged
Dropped(n, t, acked, req) ==
    [n |-> n, by |-> t, acked |-> acked, logged |-> DropRequest(req)]

\* ack(req, processed) took the Request task t was yielded from `line`
Consumed(t, line) ==
    Dropped(popped + 1, t, TRUE, into_inner(Request(line)).self)

----------------------------------------------------------------------------
(* Engine::send (engine/mod.rs): lock tx, write the line, write the         *)
(* newline, flush; every await is a step.                                   *)

\* a call of send(&message) begins
BeginSend(t, o, phase, item, cause) ==
    /\ pc' = [pc EXCEPT ![t] = "send_lock"]
    /\ job' = [job EXCEPT ![t] = Job(o, phase, item, cause)]

\* self.tx.lock().await
SendLock(t) ==
    /\ pc[t] = "send_lock"
    /\ sched[t]
    /\ IF txOwner = NoTask
       THEN /\ txOwner' = t
            /\ txWaiters' = txWaiters \ {t}
            /\ pc' = [pc EXCEPT ![t] = "send_item"]
            /\ UNCHANGED sched
       ELSE /\ txWaiters' = txWaiters \cup {t}
            /\ sched' = [sched EXCEPT ![t] = FALSE]
            /\ UNCHANGED << txOwner, pc >>
    /\ UNCHANGED << arrived, popped, eof, reader, wakers, job, sub, result,
                    wire, engSeen, unsolicited, deliveries, sent >>
    /\ locked' = IF txOwner = NoTask
                 THEN Append(locked, [by |-> t, item |-> job[t].item])
                 ELSE locked
    /\ UNCHANGED << dropped, fmt, mt, hub, att >>

\* wr.write_all(item.as_bytes()).await
SendItem(t) ==
    /\ pc[t] = "send_item"
    /\ wire' = wire \o job[t].item
    /\ pc' = [pc EXCEPT ![t] = "send_nl"]
    /\ UNCHANGED << arrived, popped, eof, reader, wakers, job, sub, sched,
                    result, txOwner, txWaiters, engSeen, unsolicited,
                    deliveries, sent >>
    /\ UNCHANGED << locked, dropped, fmt, mt, hub, att >>

\* wr.write_all(b"\n").await
SendNl(t) ==
    /\ pc[t] = "send_nl"
    /\ wire' = wire \o <<LF>>
    /\ pc' = [pc EXCEPT ![t] = "send_flush"]
    /\ UNCHANGED << arrived, popped, eof, reader, wakers, job, sub, sched,
                    result, txOwner, txWaiters, engSeen, unsolicited,
                    deliveries, sent >>
    /\ UNCHANGED << locked, dropped, fmt, mt, hub, att >>

\* the history of t's sent, the one in progress completed
Completed(t) ==
    Append(sent[t], [item |-> job[t].item, why |-> job[t].phase,
                     cause |-> job[t].cause])

\* wr.flush().await, the guard dropped; then the caller goes on: a request
\* method subscribes its ack topic, default_response and ack return to the
\* loop of Engine::subscribe
SendFlush(t) ==
    /\ pc[t] = "send_flush"
    /\ txOwner' = NoTask
    /\ sent' = [sent EXCEPT ![t] = Completed(t)]
    /\ \E w \in (IF txWaiters = {} THEN {NoTask} ELSE txWaiters) :
          /\ txWaiters' = txWaiters \ {w}
          /\ sched' = [x \in Tasks |-> IF x = w \/ x = t THEN TRUE ELSE sched[x]]
    /\ IF job[t].phase = "request"
       THEN /\ wakers' = subscribe(wakers, TopicOf(job[t].op)).wakers
            /\ IF subscribe(wakers, TopicOf(job[t].op)).panic
               THEN /\ pc' = [pc EXCEPT ![t] = "panicked"]
                    /\ UNCHANGED sub
               ELSE /\ pc' = [pc EXCEPT ![t] = "wait"]
                    /\ sub' = [sub EXCEPT ![t] = TopicOf(job[t].op)]
       ELSE /\ pc' = [pc EXCEPT ![t] = "wait"]
            /\ UNCHANGED << wakers, sub >>
    /\ UNCHANGED << arrived, popped, eof, reader, job, result, wire, engSeen,
                    unsolicited, deliveries >>
    /\ UNCHANGED << locked, dropped, fmt, mt, hub, att >>

----------------------------------------------------------------------------
(* The calls.                                                               *)

\* install(priority, name, None): build the record and send it
CallInstall(t, o) ==
    /\ pc[t] = "idle"
    /\ o.op = "install"
    /\ BeginSend(t, o, "request", install(o.priority, o.name), 0)
    /\ sched' = [sched EXCEPT ![t] = TRUE]
    /\ UNCHANGED << arrived, popped, eof, reader, wakers, sub, result, txOwner,
                    txWaiters, wire, engSeen, unsolicited, deliveries, sent >>
    /\ UNCHANGED << locked, dropped, fmt, mt, hub, att >>

\* watches() and messages(): subscribe the topic of the stream
CallStream(t, o) ==
    /\ pc[t] = "idle"
    /\ o.op \in {"watches", "messages"}
    /\ wakers' = subscribe(wakers, TopicOf(o)).wakers
    /\ IF subscribe(wakers, TopicOf(o)).panic
       THEN /\ pc' = [pc EXCEPT ![t] = "panicked"]
            /\ UNCHANGED << sub, sched >>
       ELSE /\ pc' = [pc EXCEPT ![t] = "wait"]
            /\ sub' = [sub EXCEPT ![t] = TopicOf(o)]
            /\ sched' = [sched EXCEPT ![t] = TRUE]
    /\ job' = [job EXCEPT ![t] = Job(o, "stream", <<>>, 0)]
    /\ UNCHANGED << arrived, popped, eof, reader, result, txOwner, txWaiters,
                    wire, engSeen, unsolicited, deliveries, sent >>
    /\ UNCHANGED << locked, dropped, fmt, mt, hub, att >>

----------------------------------------------------------------------------
(* A poll of a task waiting on its Sub: queue.try_next() in the loop of     *)
(* Engine::subscribe, and what the caller does with the outcome.            *)

Outcome(t) == poll_next(wakers, sub[t], Stream, eof)

\* the wakers after waker.register(cx.waker())
Registered(t, r) ==
    IF r.register THEN [wakers EXCEPT ![sub[t]] = t] ELSE wakers

\* the task waker.wake() wakes: the AtomicWaker gives its waker away
Woken(t, r) ==
    IF r.wake = NoTopic THEN NoTask ELSE Registered(t, r)[r.wake]

AfterWake(t, r) ==
    IF r.wake = NoTopic THEN Registered(t, r)
    ELSE [Registered(t, r) EXCEPT ![r.wake] = NoTask]

Delivery(t, r) ==
    [n |-> popped + 1, by |-> t, kind |-> r.result, topic |-> r.topic,
     self |-> sub[t], registered |-> DOMAIN wakers]

\* the effect of the poll on the hub; `dropping`: the Sub is dropped after
\* it, `stays`: the task goes on running
Hub(t, r, dropping, stays) ==
    /\ wakers' = IF dropping THEN drop(AfterWake(t, r), sub[t]) ELSE AfterWake(t, r)
    /\ sub' = IF dropping THEN [sub EXCEPT ![t] = NoTopic] ELSE sub
    /\ reader' = IF r.pending_on_stream THEN Given(t) ELSE reader
    /\ popped' = IF r.pop THEN popped + 1 ELSE popped
    /\ deliveries' = IF r.result \in {"Match", "NoMatch", "Err"}
                      THEN Append(deliveries, Delivery(t, r)) ELSE deliveries
    /\ sched' = [x \in Tasks |-> IF x = Woken(t, r) THEN TRUE
                                 ELSE IF x = t THEN stays ELSE sched[x]]

Polling(t) == pc[t] = "wait" /\ sched[t]

Pending(t, r) ==
    /\ r.result = "Pending"
    /\ Hub(t, r, FALSE, FALSE)
    /\ UNCHANGED << arrived, eof, pc, job, result, txOwner, txWaiters, wire,
                    engSeen, unsolicited, sent >>
    /\ UNCHANGED << locked, dropped, fmt, mt, hub, att >>

PollPending(t) == Polling(t) /\ Pending(t, Outcome(t))

Closed(t, r) ==
    /\ r.result = "None"
    /\ Hub(t, r, TRUE, FALSE)
    /\ pc' = [pc EXCEPT ![t] = "done"]
    /\ result' = [result EXCEPT ![t] =
                     IF job[t].op.op \in {"watches", "messages"}
                     THEN Ok("end") ELSE Err("UnexpectedEof")]
    /\ UNCHANGED << arrived, eof, job, txOwner, txWaiters, wire, engSeen,
                    unsolicited, sent >>
    /\ UNCHANGED << locked, dropped, fmt, mt, hub, att >>

\* the stream is closed: a request method returns UnexpectedEof, a stream ends
PollNone(t) == Polling(t) /\ Closed(t, Outcome(t))

Errored(t, r) ==
    /\ r.result = "Err"
    /\ Hub(t, r, TRUE, FALSE)
    /\ pc' = [pc EXCEPT ![t] = "done"]
    /\ result' = [result EXCEPT ![t] = Err("Io")]
    /\ UNCHANGED << arrived, eof, job, txOwner, txWaiters, wire, engSeen,
                    unsolicited, sent >>
    /\ UNCHANGED << locked, dropped, fmt, mt, hub, att >>

\* the stream errored: the error is popped and fails the caller
PollErr(t) == Polling(t) /\ Errored(t, Outcome(t))

\* Unhandled, but the lock of tx is taken inside the poll
UnhandledLocking(t, r, d) ==
    /\ r.result = "NoMatch"
    /\ Hub(t, r, FALSE, TRUE)
    /\ IF d.send
       THEN /\ pc' = [pc EXCEPT ![t] = "send_item"]
            /\ job' = [job EXCEPT ![t] =
                           Job(job[t].op, "default", d.item, popped + 1)]
            /\ txOwner' = t
       ELSE UNCHANGED << pc, job, txOwner >>
    /\ UNCHANGED << arrived, eof, result, txWaiters, wire, engSeen,
                    unsolicited, sent, locked, dropped, fmt, mt, hub, att >>

\* Unhandled, but an item default_response has no answer to fails the call
UnhandledFatal(t, r, d) ==
    /\ r.result = "NoMatch"
    /\ Hub(t, r, d.log = "warn", d.log # "warn")
    /\ IF d.send
       THEN BeginSend(t, job[t].op, "default", d.item, popped + 1)
       ELSE IF d.log = "warn"
            THEN /\ pc' = [pc EXCEPT ![t] = "done"]
                 /\ UNCHANGED job
            ELSE UNCHANGED << pc, job >>
    /\ result' = IF d.log = "warn"
                 THEN [result EXCEPT ![t] = Err("Format")] ELSE result
    /\ UNCHANGED << arrived, eof, txOwner, txWaiters, wire, engSeen,
                    unsolicited, sent, locked, dropped, fmt, mt, hub, att >>

Unhandled(t, r, d) ==
    /\ r.result = "NoMatch"
    /\ Hub(t, r, FALSE, TRUE)
    /\ IF d.send
       THEN BeginSend(t, job[t].op, "default", d.item, popped + 1)
       ELSE UNCHANGED << pc, job >>
    /\ UNCHANGED << arrived, eof, result, txOwner, txWaiters, wire, engSeen,
                    unsolicited, sent >>
    /\ UNCHANGED << locked, dropped, fmt, mt, hub, att >>

\* an unhandled item: default_response, then the loop goes on
PollNoMatch(t) ==
    /\ Polling(t)
    /\ Unhandled(t, Outcome(t), DefaultResponse[Head(Stream).line])

Acked(t, r, a) ==
    /\ r.result = "Match"
    /\ Hub(t, r, TRUE, FALSE)
    /\ pc' = [pc EXCEPT ![t] = "done"]
    /\ result' = [result EXCEPT ![t] =
                     IF a.ok THEN Ok(BoolText(a.val.success)) ELSE Err("Format")]
    /\ UNCHANGED << arrived, eof, job, txOwner, txWaiters, wire, engSeen,
                    unsolicited, sent >>
    /\ UNCHANGED << locked, dropped, fmt, mt, hub, att >>

\* install: the ack is deserialized, its success returned, the Sub dropped
MatchInstall(t) ==
    /\ Polling(t)
    /\ job[t].op.op = "install"
    /\ Acked(t, Outcome(t), InstallAckOf[Head(Stream).line])

Subscribed(t, r, processed) ==
    /\ r.result = "Match"
    /\ Hub(t, r, FALSE, TRUE)
    /\ IF job[t].op.op = "messages"
       THEN BeginSend(t, job[t].op, "ack", AckOf[Head(Stream).line][processed],
                      popped + 1)
       ELSE UNCHANGED << pc, job >>
    /\ UNCHANGED << arrived, eof, result, txOwner, txWaiters, wire, engSeen,
                    unsolicited, sent >>
    /\ dropped' = IF job[t].op.op = "messages"
                  THEN Append(dropped, Consumed(t, Head(Stream).line))
                  ELSE dropped
    /\ UNCHANGED << locked, fmt, mt, hub, att >>

\* watches() yields the record; messages() yields a Request, which the
\* consumer acknowledges with the flag its handler returned
MatchStream(t, processed) ==
    /\ Polling(t)
    /\ job[t].op.op \in {"watches", "messages"}
    /\ Subscribed(t, Outcome(t), processed)

----------------------------------------------------------------------------
(* The engine at the other end of the connection.                           *)

\* the reader wakes the waker it holds; a waker it was given before may be
\* woken or not
WakeReader ==
    \E also \in SUBSET reader.stale :
        /\ sched' = [x \in Tasks |-> IF x = reader.last \/ x \in also THEN TRUE
                                     ELSE sched[x]]
        /\ reader' = NoWaker

\* the complete lines among the parts of the outbound characters
Complete(parts) == SubSeq(parts, 1, Len(parts) - 1)

OutLines == Complete(split(wire, LF))

Least(S) == IF S = {} THEN 0 ELSE CHOOSE i \in S : \A j \in S : i <= j

\* the lines of the install requests
Asked == {install(o.priority, o.name) : o \in Requests}

\* the next install among the lines that the engine has not answered
\* (0: none); other lines, and lines that are no whole frame, get no answer
FirstInstall(lines, seen) ==
    Least({i \in (seen + 1)..Len(lines) : lines[i] \in Asked})

NextInstall == FirstInstall(OutLines, engSeen)

\* an unsolicited item arrives
Arrive(item) ==
    /\ ~eof
    /\ unsolicited < MaxUnsolicited
    /\ arrived' = Append(arrived, item)
    /\ unsolicited' = unsolicited + 1
    /\ WakeReader
    /\ UNCHANGED << popped, eof, wakers, pc, job, sub, result, txOwner,
                    txWaiters, wire, engSeen, deliveries, sent >>
    /\ UNCHANGED << locked, dropped, fmt, mt, hub, att >>

AnswerNth(lines, i, success) ==
    /\ i # 0
    /\ arrived' = Append(arrived,
                         OkItem(Answer(from_str(Install, lines[i]).val, success)))
    /\ engSeen' = i

\* the engine answers the next install
EngineAck(success) ==
    /\ ~eof
    /\ AnswerNth(OutLines, NextInstall, success)
    /\ WakeReader
    /\ UNCHANGED << popped, eof, wakers, pc, job, sub, result, txOwner,
                    txWaiters, wire, unsolicited, deliveries, sent >>
    /\ UNCHANGED << locked, dropped, fmt, mt, hub, att >>

\* the inbound stream ends
Eof ==
    /\ ~eof
    /\ eof' = TRUE
    /\ WakeReader
    /\ UNCHANGED << arrived, popped, wakers, pc, job, sub, result, txOwner,
                    txWaiters, wire, engSeen, unsolicited, deliveries, sent >>
    /\ UNCHANGED << locked, dropped, fmt, mt, hub, att >>

----------------------------------------------------------------------------

Next ==
    \/ \E t \in Tasks : \E o \in Ops(t) : CallInstall(t, o)
    \/ \E t \in Tasks : \E o \in Ops(t) : CallStream(t, o)
    \/ \E t \in Tasks : SendLock(t)
    \/ \E t \in Tasks : SendItem(t)
    \/ \E t \in Tasks : SendNl(t)
    \/ \E t \in Tasks : SendFlush(t)
    \/ \E t \in Tasks : PollPending(t)
    \/ \E t \in Tasks : PollNone(t)
    \/ \E t \in Tasks : PollErr(t)
    \/ \E t \in Tasks : PollNoMatch(t)
    \/ \E t \in Tasks : MatchInstall(t)
    \/ \E t \in Tasks, processed \in BOOLEAN : MatchStream(t, processed)
    \/ \E item \in Unsolicited : Arrive(item)
    \/ \E success \in BOOLEAN : EngineAck(success)
    \/ Eof

Spec == Init /\ [][Next]_vars

\* the steps of one task
Run(t) ==
    \/ \E o \in Ops(t) : CallInstall(t, o) \/ CallStream(t, o)
    \/ SendLock(t) \/ SendItem(t) \/ SendNl(t) \/ SendFlush(t)
    \/ PollPending(t) \/ PollNone(t) \/ PollErr(t) \/ PollNoMatch(t)
    \/ MatchInstall(t)
    \/ \E processed \in BOOLEAN : MatchStream(t, processed)

\* The executor polls every task that has been woken, and a write that
\* has begun completes; nothing is assumed of the engine.
FairSpec == Spec /\ \A t \in Tasks : WF_vars(Run(t))

----------------------------------------------------------------------------
(* Calls that do not run to their end: the handler of a Request fails, a    *)
(* write fails, the caller drops the future of its call.                    *)

\* the closure of attach's message loop: module.on_message returns an error,
\* `?` leaves the closure with the Request still in scope, the loop fails
Refused(t, r) ==
    /\ r.result = "Match"
    /\ Hub(t, r, TRUE, FALSE)
    /\ pc' = [pc EXCEPT ![t] = "done"]
    /\ result' = [result EXCEPT ![t] = Err("Module")]
    /\ dropped' = Append(dropped,
                         Dropped(popped + 1, t, FALSE, Request(Head(Stream).line)))
    /\ UNCHANGED << arrived, eof, job, txOwner, txWaiters, wire, engSeen,
                    unsolicited, sent, locked, fmt, mt, hub, att >>

OnMessageErr(t) ==
    /\ Polling(t)
    /\ job[t].op.op = "messages"
    /\ Refused(t, Outcome(t))

\* the task, if any, that is woken when task t lets go of the lock of tx or
\* of its place among those waiting for it
Heirs(t) ==
    IF /\ txWaiters \ {t} # {}
       /\ \/ txOwner = t
          \/ pc[t] = "send_lock" /\ txOwner = NoTask /\ t \notin txWaiters
    THEN txWaiters \ {t}
    ELSE {NoTask}

\* task t leaves its call: the lock guard or the lock future is dropped, and
\* so is the Sub
Leave(t, w) ==
    /\ txOwner' = IF txOwner = t THEN NoTask ELSE txOwner
    /\ txWaiters' = txWaiters \ {t, w}
    /\ sched' = [x \in Tasks |-> IF x = t THEN FALSE
                                 ELSE IF x = w THEN TRUE ELSE sched[x]]
    /\ wakers' = IF sub[t] = NoTopic THEN wakers ELSE drop(wakers, sub[t])
    /\ sub' = [sub EXCEPT ![t] = NoTopic]

\* a write or the flush of send fails: `?` returns the error through send
\* and through the call that made it
SendFail(t) ==
    /\ pc[t] \in {"send_item", "send_nl", "send_flush"}
    /\ \E w \in Heirs(t) : Leave(t, w)
    /\ pc' = [pc EXCEPT ![t] = "failed"]
    /\ result' = [result EXCEPT ![t] = Err("Io")]
    /\ UNCHANGED << arrived, popped, eof, reader, job, wire, engSeen,
                    unsolicited, deliveries, sent, locked, dropped, fmt, mt, hub, att >>

\* the waker of a task whose future was dropped wakes nothing
Forgotten(t) ==
    [last |-> IF reader.last = t THEN NoTask ELSE reader.last,
     stale |-> reader.stale \ {t}]

\* the caller drops the future of task t's call at a suspension point
Cancel(t) ==
    /\ pc[t] \in {"send_lock", "send_item", "send_nl", "send_flush", "wait"}
    /\ \E w \in Heirs(t) : Leave(t, w)
    /\ pc' = [pc EXCEPT ![t] = "cancelled"]
    /\ reader' = Forgotten(t)
    /\ UNCHANGED << arrived, popped, eof, job, result, wire, engSeen,
                    unsolicited, deliveries, sent, locked, dropped, fmt, mt, hub, att >>

NextFail ==
    \/ Next
    \/ \E t \in Tasks : OnMessageErr(t)
    \/ \E t \in Tasks : SendFail(t)
    \/ \E t \in Tasks : Cancel(t)

FailSpec == Init /\ [][NextFail]_vars

----------------------------------------------------------------------------
(* Engine::quit, and the calls made once it has returned.                   *)

\* the tasks that call quit
Quitters == {"t2"}

\* quit(): send the line
CallQuit(t) ==
    /\ pc[t] = "idle"
    /\ job[t].op = NoOp
    /\ BeginSend(t, Op("quit", NoKey, None), "request", quit, 0)
    /\ sched' = [sched EXCEPT ![t] = TRUE]
    /\ UNCHANGED << arrived, popped, eof, reader, wakers, sub, result, txOwner,
                    txWaiters, wire, engSeen, unsolicited, deliveries, sent,
                    locked, dropped, fmt, mt, hub, att >>

\* the QuitAck is received: the Sub of the call is dropped with the stream
\* that held it, then unsubscribe_all empties the map and wakes the tasks
\* registered in it
Quitted(t, r) ==
    /\ r.result = "Match"
    /\ wakers' = unsubscribe_all(drop(AfterWake(t, r), sub[t])).wakers
    /\ sched' = [x \in Tasks |->
                    IF x \in unsubscribe_all(drop(AfterWake(t, r), sub[t])).woken
                    THEN TRUE ELSE IF x = t THEN FALSE ELSE sched[x]]
    /\ sub' = [sub EXCEPT ![t] = NoTopic]
    /\ popped' = popped + 1
    /\ deliveries' = Append(deliveries, Delivery(t, r))
    /\ pc' = [pc EXCEPT ![t] = "done"]
    /\ result' = [result EXCEPT ![t] = Ok("quit")]
    /\ UNCHANGED << arrived, eof, reader, job, txOwner, txWaiters, wire,
                    engSeen, unsolicited, sent, locked, dropped, fmt, mt, hub, att >>

MatchQuit(t) ==
    /\ Polling(t)
    /\ job[t].op.op = "quit"
    /\ Quitted(t, Outcome(t))

\* the caller of quit goes on to make another call
Again(t) ==
    /\ pc[t] = "done"
    /\ job[t].op.op = "quit"
    /\ result[t] = Ok("quit")
    /\ pc' = [pc EXCEPT ![t] = "idle"]
    /\ job' = [job EXCEPT ![t] = Job(Op("again", NoKey, None), "none", <<>>, 0)]
    /\ UNCHANGED << arrived, popped, eof, reader, wakers, sub, sched, result,
                    txOwner, txWaiters, wire, engSeen, unsolicited, deliveries,
                    sent, locked, dropped, fmt, mt, hub, att >>

\* the next quit among the lines that the engine has not answered (0: none)
FirstQuit(lines, seen) ==
    Least({i \in (seen + 1)..Len(lines) : lines[i] = quit})

QuitNth(i) ==
    /\ i # 0
    /\ arrived' = Append(arrived, OkItem(FrameQuitAck))
    /\ engSeen' = i

\* the engine answers the next quit
EngineQuitAck ==
    /\ ~eof
    /\ QuitNth(FirstQuit(OutLines, engSeen))
    /\ WakeReader
    /\ UNCHANGED << popped, eof, wakers, pc, job, sub, result, txOwner,
                    txWaiters, wire, unsolicited, deliveries, sent, locked,
                    dropped, fmt, mt, hub, att >>

NextQuit ==
    \/ Next
    \/ \E t \in Quitters : CallQuit(t)
    \/ \E t \in Quitters : MatchQuit(t)
    \/ \E t \in Quitters : Again(t)
    \/ EngineQuitAck

QuitSpec == Init /\ [][NextQuit]_vars

----------------------------------------------------------------------------
(* Engine::message: the id is drawn, the Message sent, MessageAck(id)       *)
(* subscribed.                                                              *)

\* message(name, retvalue, kv): draw the id, build the record and send it;
\* the key of the topic of the call is the id
CallMessage(t, drawn) ==
    /\ pc[t] = "idle"
    /\ job[t].op = NoOp
    /\ BeginSend(t, Op("message", drawn, None), "request", message(drawn), 0)
    /\ sched' = [sched EXCEPT ![t] = TRUE]
    /\ UNCHANGED << arrived, popped, eof, reader, wakers, sub, result, txOwner,
                    txWaiters, wire, engSeen, unsolicited, deliveries, sent,
                    locked, dropped, fmt, mt, hub, att >>

\* the MessageAck is deserialized, its fields returned, the Sub dropped
Replied(t, r, a) ==
    /\ r.result = "Match"
    /\ Hub(t, r, TRUE, FALSE)
    /\ pc' = [pc EXCEPT ![t] = "done"]
    /\ result' = [result EXCEPT ![t] =
                     IF a.ok THEN Ok(BoolText(a.val.processed)) ELSE Err("Format")]
    /\ UNCHANGED << arrived, eof, job, txOwner, txWaiters, wire, engSeen,
                    unsolicited, sent, locked, dropped, fmt, mt, hub, att >>

MatchMessage(t) ==
    /\ Polling(t)
    /\ job[t].op.op = "message"
    /\ Replied(t, Outcome(t), MessageAckOf[Head(Stream).line])

\* the next Message among the lines that the engine has not answered
\* (0: none)
FirstMessage(lines, seen) ==
    Least({i \in (seen + 1)..Len(lines) : lines[i] \in {message(d) : d \in Ids}})

ReplyNth(lines, i, processed) ==
    /\ i # 0
    /\ arrived' = Append(arrived,
                         OkItem(Reply(from_str(Message, lines[i]).val, processed)))
    /\ engSeen' = i

\* the engine answers the next Message
EngineMessageAck(processed) ==
    /\ ~eof
    /\ ReplyNth(OutLines, FirstMessage(OutLines, engSeen), processed)
    /\ WakeReader
    /\ UNCHANGED << popped, eof, wakers, pc, job, sub, result, txOwner,
                    txWaiters, wire, unsolicited, deliveries, sent, locked,
                    dropped, fmt, mt, hub, att >>

NextMessage ==
    \/ Next
    \/ \E t \in Tasks : \E drawn \in Ids : CallMessage(t, drawn)
    \/ \E t \in Tasks : MatchMessage(t)
    \/ \E processed \in BOOLEAN : EngineMessageAck(processed)

MessageSpec == Init /\ [][NextMessage]_vars

----------------------------------------------------------------------------
(* The functions of format/ called on their own, as fn test of              *)
(* format/tests.rs and the tests of format/upcode.rs call them: a function  *)
(* is applied to an input, then its inverse to what it returned.            *)

\* the record types fn test is called with, of those declared above
ShapeOf(name) ==
    CASE name = "ErrorIn" -> ErrorIn
      [] name = "Message" -> Message
      [] name = "MessageAck" -> MessageAck
      [] name = "Install" -> Install
      [] name = "InstallAck" -> InstallAck
      [] name = "UninstallAck" -> UninstallAck
      [] name = "WatchAck" -> WatchAck
      [] name = "UnwatchAck" -> UnwatchAck
      [] name = "SetLocal" -> SetLocal
      [] name = "SetLocalAck" -> SetLocalAck
      [] name = "Quit" -> Quit
      [] name = "QuitAck" -> QuitAck

Records == {"ErrorIn", "Message", "MessageAck", "Install", "InstallAck", "UninstallAck",
            "WatchAck", "UnwatchAck", "SetLocal", "SetLocalAck", "Quit", "QuitAck"}

Fixture(shape, input) == [shape |-> shape, input |-> input]

\* the frames format/tests.rs round-trips, each with its record type
Fixtures ==
    {
      \* "Error in:this is an error"
      Fixture("ErrorIn", <<69,114,114,111,114,32,105,110,58,116,104,105,115,32,105,115,32,97,110,32,101,114,114,111,114>>),
      \* "%%>message:yengine.1.1:1095112795:engine.timer:"
      Fixture("Message", <<37,37,62,109,101,115,115,97,103,101,58,121,101,110,103,105,110,101,46,49,46,49,58,49,48,57,53,49,49,50,55,57,53,58,101,110,103,105,110,101,46,116,105,109,101,114,58>>),
      \* "%%>message:yengine.1.2:1095112795:engine.timer:1234"
      Fixture("Message", <<37,37,62,109,101,115,115,97,103,101,58,121,101,110,103,105,110,101,46,49,46,50,58,49,48,57,53,49,49,50,55,57,53,58,101,110,103,105,110,101,46,116,105,109,101,114,58,49,50,51,52>>),
      \* "%%>message:yengine.1.3:1095112795:engine.timer::time=1095112795"
      Fixture("Message", <<37,37,62,109,101,115,115,97,103,101,58,121,101,110,103,105,110,101,46,49,46,51,58,49,48,57,53,49,49,50,55,57,53,58,101,110,103,105,110,101,46,116,105,109,101,114,58,58,116,105,109,101,61,49,48,57,53,49,49,50,55,57,53>>),
      \* "%%>message:yengine.1.4:1095112794:app.job::done=75%%:job=cleanup:path=/bin%Z/usr/bin"
      Fixture("Message", <<37,37,62,109,101,115,115,97,103,101,58,121,101,110,103,105,110,101,46,49,46,52,58,49,48,57,53,49,49,50,55,57,52,58,97,112,112,46,106,111,98,58,58,100,111,110,101,61,55,53,37,37,58,106,111,98,61,99,108,101,97,110,117,112,58,112,97,116,104,61,47,98,105,110,37,90,47,117,115,114,47,98,105,110>>),
      \* "%%<message:234479208:false:engine.timer::time=1095112795"
      Fixture("MessageAck", <<37,37,60,109,101,115,115,97,103,101,58,50,51,52,52,55,57,50,48,56,58,102,97,108,115,101,58,101,110,103,105,110,101,46,116,105,109,101,114,58,58,116,105,109,101,61,49,48,57,53,49,49,50,55,57,53>>),
      \* "%%<message:234479288:false:engine.timer::extra=true:time=1095112796"
      Fixture("MessageAck", <<37,37,60,109,101,115,115,97,103,101,58,50,51,52,52,55,57,50,56,56,58,102,97,108,115,101,58,101,110,103,105,110,101,46,116,105,109,101,114,58,58,101,120,116,114,97,61,116,114,117,101,58,116,105,109,101,61,49,48,57,53,49,49,50,55,57,54>>),
      \* "%%<message:yengine.1.4:true:app.job:Restart required:path=/bin%Z/usr/bin%Z/usr/local/bin"
      Fixture("MessageAck", <<37,37,60,109,101,115,115,97,103,101,58,121,101,110,103,105,110,101,46,49,46,52,58,116,114,117,101,58,97,112,112,46,106,111,98,58,82,101,115,116,97,114,116,32,114,101,113,117,105,114,101,100,58,112,97,116,104,61,47,98,105,110,37,90,47,117,115,114,47,98,105,110,37,90,47,117,115,114,47,108,111,99,97,108,47,98,105,110>>),
      \* "%%>install::engine.timer"
      Fixture("Install", <<37,37,62,105,110,115,116,97,108,108,58,58,101,110,103,105,110,101,46,116,105,109,101,114>>),
      \* "%%>install:50:engine.timer"
      Fixture("Install", <<37,37,62,105,110,115,116,97,108,108,58,53,48,58,101,110,103,105,110,101,46,116,105,109,101,114>>),
      \* "%%>install::engine.timer:key"
      Fixture("Install", <<37,37,62,105,110,115,116,97,108,108,58,58,101,110,103,105,110,101,46,116,105,109,101,114,58,107,101,121>>),
      \* "%%>install:50:engine.timer:key:value"
      Fixture("Install", <<37,37,62,105,110,115,116,97,108,108,58,53,48,58,101,110,103,105,110,101,46,116,105,109,101,114,58,107,101,121,58,118,97,108,117,101>>),
      \* "%%<install:100:engine.timer:true"
      Fixture("InstallAck", <<37,37,60,105,110,115,116,97,108,108,58,49,48,48,58,101,110,103,105,110,101,46,116,105,109,101,114,58,116,114,117,101>>),
      \* "%%<install:50:engine.timer:false"
      Fixture("InstallAck", <<37,37,60,105,110,115,116,97,108,108,58,53,48,58,101,110,103,105,110,101,46,116,105,109,101,114,58,102,97,108,115,101>>),
      \* "%%<uninstall:50:engine.timer:true"
      Fixture("UninstallAck", <<37,37,60,117,110,105,110,115,116,97,108,108,58,53,48,58,101,110,103,105,110,101,46,116,105,109,101,114,58,116,114,117,101>>),
      \* "%%<uninstall:100:engine.timer:false"
      Fixture("UninstallAck", <<37,37,60,117,110,105,110,115,116,97,108,108,58,49,48,48,58,101,110,103,105,110,101,46,116,105,109,101,114,58,102,97,108,115,101>>),
      \* "%%<watch:engine.timer:true"
      Fixture("WatchAck", <<37,37,60,119,97,116,99,104,58,101,110,103,105,110,101,46,116,105,109,101,114,58,116,114,117,101>>),
      \* "%%<watch:engine.timer:false"
      Fixture("WatchAck", <<37,37,60,119,97,116,99,104,58,101,110,103,105,110,101,46,116,105,109,101,114,58,102,97,108,115,101>>),
      \* "%%<unwatch:engine.timer:true"
      Fixture("UnwatchAck", <<37,37,60,117,110,119,97,116,99,104,58,101,110,103,105,110,101,46,116,105,109,101,114,58,116,114,117,101>>),
      \* "%%<unwatch:engine.timer:false"
      Fixture("UnwatchAck", <<37,37,60,117,110,119,97,116,99,104,58,101,110,103,105,110,101,46,116,105,109,101,114,58,102,97,108,115,101>>),
      \* "%%>setlocal:trackparam:yengine.1"
      Fixture("SetLocal", <<37,37,62,115,101,116,108,111,99,97,108,58,116,114,97,99,107,112,97,114,97,109,58,121,101,110,103,105,110,101,46,49>>),
      \* "%%>setlocal:trackparam:"
      Fixture("SetLocal", <<37,37,62,115,101,116,108,111,99,97,108,58,116,114,97,99,107,112,97,114,97,109,58>>),
      \* "%%<setlocal:trackparam:yengine.1:true"
      Fixture("SetLocalAck", <<37,37,60,115,101,116,108,111,99,97,108,58,116,114,97,99,107,112,97,114,97,109,58,121,101,110,103,105,110,101,46,49,58,116,114,117,101>>),
      \* "%%<setlocal:trackparam:yengine.1:false"
      Fixture("SetLocalAck", <<37,37,60,115,101,116,108,111,99,97,108,58,116,114,97,99,107,112,97,114,97,109,58,121,101,110,103,105,110,101,46,49,58,102,97,108,115,101>>),
      \* "%%>quit"
      Fixture("Quit", <<37,37,62,113,117,105,116>>),
      \* "%%<quit"
      Fixture("QuitAck", <<37,37,60,113,117,105,116>>) }

IsOptional(field) == field.has_default \/ field.shape.def = "Option"

\* the segments of a frame of the record that come before its trailing
\* optional fields: the tag and the fields before them
Mandatory(shape) ==
    Cardinality({i \in 1..Len(shape.fields) :
                    \E j \in i..Len(shape.fields) : ~IsOptional(shape.fields[j])}) + 1

\* the frame cut after its first k segments
Cut(frame, k) == join(SubSeq(split(frame, Colon), 1, k), Colon)

\* the record ends with fields that are optional
HasTrailingOptional(shape) == Mandatory(shape) <= Len(shape.fields)

\* the fixtures of such records cut at a trailing optional field
Truncations ==
    UNION { { Fixture(x.shape, Cut(x.input, k)) :
                k \in Mandatory(ShapeOf(x.shape))..(Len(split(x.input, Colon)) - 1) } :
            x \in {y \in Fixtures : HasTrailingOptional(ShapeOf(y.shape))} }

\* the longest text the functions of upcode.rs are given
MaxText == 3

\* some characters: NUL, LF, ' ', '%', '0', ':', '@', 'a', 'z', DEL and a
\* character that is not ASCII
Alphabet == {0, 10, 32, 37, 48, 58, 64, 97, 122, 127, 8482}

Texts == UNION { [1..n -> Alphabet] : n \in 0..MaxText }

\* frames that carry a tag of the classifier and a field that does not
\* parse, a QuitAck with a segment too many, a request and a line with no tag
Odd ==
    {
      \* "%%<install:x:engine.timer:true"
      <<37,37,60,105,110,115,116,97,108,108,58,120,58,101,110,103,105,110,101,46,116,105,109,101,114,58,116,114,117,101>>,
      \* "%%<install:100:engine.timer:maybe"
      <<37,37,60,105,110,115,116,97,108,108,58,49,48,48,58,101,110,103,105,110,101,46,116,105,109,101,114,58,109,97,121,98,101>>,
      \* "%%<uninstall:50:engine.timer:yes"
      <<37,37,60,117,110,105,110,115,116,97,108,108,58,53,48,58,101,110,103,105,110,101,46,116,105,109,101,114,58,121,101,115>>,
      \* "%%<watch:engine.timer:1"
      <<37,37,60,119,97,116,99,104,58,101,110,103,105,110,101,46,116,105,109,101,114,58,49>>,
      \* "%%<unwatch:engine.timer:"
      <<37,37,60,117,110,119,97,116,99,104,58,101,110,103,105,110,101,46,116,105,109,101,114,58>>,
      \* "%%<setlocal:trackparam:yengine.1:ok"
      <<37,37,60,115,101,116,108,111,99,97,108,58,116,114,97,99,107,112,97,114,97,109,58,121,101,110,103,105,110,101,46,49,58,111,107>>,
      \* "%%>message:abc:now:call.route:"
      <<37,37,62,109,101,115,115,97,103,101,58,97,98,99,58,110,111,119,58,99,97,108,108,46,114,111,117,116,101,58>>,
      \* "%%<message:abc:maybe:call.route:"
      <<37,37,60,109,101,115,115,97,103,101,58,97,98,99,58,109,97,121,98,101,58,99,97,108,108,46,114,111,117,116,101,58>>,
      \* "%%<quit:now"
      <<37,37,60,113,117,105,116,58,110,111,119>>,
      \* "%%>watch:engine.timer"
      <<37,37,62,119,97,116,99,104,58,101,110,103,105,110,101,46,116,105,109,101,114>>,
      \* "hello"
      <<104,101,108,108,111>>
    }

\* the frames given to Topic::topic
Classified == {x.input : x \in Fixtures} \cup Odd

\* a record of each of three types built around a text: a SetLocal whose
\* optional value holds it, a Message whose map has it as a value, and a
\* MessageAck whose map has a key made of "k=" and of it
Value(shape, text) ==
    CASE shape = "SetLocal" -> [name |-> <<107>>, value |-> Some(text)]
      [] shape = "Message" ->
            [id |-> <<97,98,99>>, time |-> <<Digit0 + 1>>, name |-> <<107>>,
             retvalue |-> <<>>, kv |-> (<<107>> :> text)]
      [] shape = "MessageAck" ->
            [id |-> <<97,98,99>>, processed |-> TRUE, name |-> None,
             retvalue |-> <<>>, kv |-> ((<<107, Equals>> \o text) :> <<118>>)]

Built == {"SetLocal", "Message", "MessageAck"}

\* no result yet
Unset == [ok |-> FALSE, err |-> "unset"]

\* a call: the function applied first, the record type if it has one, the
\* input, how many functions have been applied, what each returned
Call(f, shape, input) ==
    [f |-> f, shape |-> shape, input |-> input, at |-> 0, r1 |-> Unset, r2 |-> Unset]

Calls ==
    { Call("from_str", shape, x.input) :
          shape \in Records, x \in Fixtures \cup Truncations \cup {Fixture("", <<>>)} }
        \cup { Call(f, "", text) : f \in {"encode", "decode"}, text \in Texts }
        \cup { Call("topic", "", item) : item \in Classified }
        \cup { Call("install", "", name) : name \in Texts }
        \cup { Call("setlocal", "", value) : value \in Texts }
        \cup { Call("to_string", shape, text) : shape \in Built, text \in Texts }

FormatInit ==
    /\ Constructed
    /\ mt = NoThreads
    /\ hub = NoHub
    /\ att = NoAttach
    /\ fmt \in Calls

\* fn test: from_str::<T>(input)
FromStr ==
    /\ fmt.f = "from_str" /\ fmt.at = 0
    /\ fmt' = [fmt EXCEPT !.at = 1, !.r1 = from_str(ShapeOf(fmt.shape), fmt.input)]
    /\ UNCHANGED << engine, mt, hub, att >>

\* fn test: to_string(&deserialized)
Reserialize ==
    /\ fmt.f = "from_str" /\ fmt.at = 1 /\ fmt.r1.ok
    /\ fmt' = [fmt EXCEPT !.at = 2, !.r2 = to_string(ShapeOf(fmt.shape), fmt.r1.val)]
    /\ UNCHANGED << engine, mt, hub, att >>

\* encode(input), or encode(&decode(input).unwrap())
Encode ==
    /\ \/ /\ fmt.f = "encode" /\ fmt.at = 0
          /\ fmt' = [fmt EXCEPT !.at = 1,
                                !.r1 = [ok |-> TRUE, v |-> encode(fmt.input)]]
       \/ /\ fmt.f = "decode" /\ fmt.at = 1 /\ fmt.r1.ok
          /\ fmt' = [fmt EXCEPT !.at = 2,
                                !.r2 = [ok |-> TRUE, v |-> encode(fmt.r1.v)]]
    /\ UNCHANGED << engine, mt, hub, att >>

\* decode(input), or decode(&encode(input))
Decode ==
    /\ \/ /\ fmt.f = "decode" /\ fmt.at = 0
          /\ fmt' = [fmt EXCEPT !.at = 1, !.r1 = decode(fmt.input)]
       \/ /\ fmt.f = "encode" /\ fmt.at = 1
          /\ fmt' = [fmt EXCEPT !.at = 2, !.r2 = decode(fmt.r1.v)]
    /\ UNCHANGED << engine, mt, hub, att >>

\* Topic::topic(item), of a frame or of the ack of an install
Classify ==
    /\ \/ /\ fmt.f = "topic" /\ fmt.at = 0
          /\ fmt' = [fmt EXCEPT !.at = 1,
                                !.r1 = [ok |-> TRUE, v |-> topic(fmt.input)]]
       \/ /\ fmt.f = "install" /\ fmt.at = 1
          /\ fmt' = [fmt EXCEPT !.at = 2,
                                !.r2 = [ok |-> TRUE, v |-> topic(fmt.r1.v)]]
    /\ UNCHANGED << engine, mt, hub, att >>

\* the parameter of the calls of setlocal and getlocal
Trackparam == <<116,114,97,99,107,112,97,114,97,109>>  \* "trackparam"

\* setlocal("trackparam", value) builds its line
SetLocalSent ==
    /\ fmt.f = "setlocal" /\ fmt.at = 0
    /\ fmt' = [fmt EXCEPT !.at = 1,
                          !.r1 = [ok |-> TRUE, v |-> setlocal(Trackparam, fmt.input)]]
    /\ UNCHANGED << engine, mt, hub, att >>

\* getlocal("trackparam") builds its line
GetLocalSent ==
    /\ fmt.f = "setlocal" /\ fmt.at = 1
    /\ fmt' = [fmt EXCEPT !.at = 2,
                          !.r2 = [ok |-> TRUE, v |-> getlocal(Trackparam)]]
    /\ UNCHANGED << engine, mt, hub, att >>

\* to_string(&value) of a record
Serialize ==
    /\ fmt.f = "to_string" /\ fmt.at = 0
    /\ fmt' = [fmt EXCEPT !.at = 1,
                          !.r1 = [ok |-> TRUE,
                                  v |-> to_string(ShapeOf(fmt.shape),
                                                  Value(fmt.shape, fmt.input))]]
    /\ UNCHANGED << engine, mt, hub, att >>

\* from_str::<T>(&serialized)
Deserialize ==
    /\ fmt.f = "to_string" /\ fmt.at = 1
    /\ fmt' = [fmt EXCEPT !.at = 2, !.r2 = from_str(ShapeOf(fmt.shape), fmt.r1.v)]
    /\ UNCHANGED << engine, mt, hub, att >>

\* install(None, name) is answered: the ack of the engine carries the name
\* as the request carried it, encoded
InstallAnswered ==
    /\ fmt.f = "install" /\ fmt.at = 0
    /\ fmt' = [fmt EXCEPT !.at = 1,
                          !.r1 = [ok |-> TRUE,
                                  v |-> Answer(Op("install", fmt.input, None), TRUE)]]
    /\ UNCHANGED << engine, mt, hub, att >>

FormatNext == FromStr \/ Reserialize \/ Encode \/ Decode \/ Classify
                \/ InstallAnswered \/ SetLocalSent \/ GetLocalSent
                \/ Serialize \/ Deserialize

FormatSpec == FormatInit /\ [][FormatNext]_vars

----------------------------------------------------------------------------
(* Properties.                                                              *)

Sending == {"send_lock", "send_item", "send_nl", "send_flush"}

\* task t is in a call of send made for the n-th item of the stream
InFlight(t, n) == pc[t] \in Sending /\ job[t].cause = n

\* the completed sends of task t made for the n-th item of the stream
Written(t, n) == {k \in 1..Len(sent[t]) : sent[t][k].cause = n}

Watch == Topic("Watch", NoKey)

\* C1: every item taken from the inbound stream is returned to exactly one
\* subscription, the one that took it: the items returned are the items
\* taken, each once and in the order of the stream.
ConsumedExactlyOnce ==
    /\ Len(deliveries) = popped
    /\ \A i \in 1..Len(deliveries) :
          /\ deliveries[i].n = i
          /\ deliveries[i].by \in Tasks
          /\ deliveries[i].self \in deliveries[i].registered

\* two subscriptions of two tasks have each been returned an item
ConsumedByTwo ==
    /\ popped >= 2
    /\ \E i, j \in 1..Len(deliveries) :
          /\ deliveries[i].by # deliveries[j].by
          /\ deliveries[i].kind = "Match"
          /\ deliveries[j].kind \in {"Match", "NoMatch"}

Outstanding(t) == pc[t] = "wait" /\ sub[t] \in DOMAIN wakers

\* the n-th item of the stream is at its head
AtHead(n) == popped = n - 1 /\ Len(arrived) >= n

\* the items the stream can produce in one behaviour
Places == 1..(MaxUnsolicited + Cardinality(Tasks))

\* C3: whenever an item is at the head of the inbound stream and a
\* subscription is outstanding, the item is eventually taken from the
\* stream, the tasks being polled only when woken.
HeadEventuallyConsumed ==
    \A n \in Places :
        (AtHead(n) /\ \E t \in Tasks : Outstanding(t)) ~> (popped >= n)

\* the two tasks are callers of install with two names, the ack of the
\* one task t awaits is in the stream with the flag `success`, and the
\* engine has sent nothing but acks
AckInStream(t, success) ==
    /\ Outstanding(t)
    /\ job[t].op.op = "install"
    /\ \A u \in Tasks \ {t} :
          job[u].op.op = "install" /\ job[u].op.name # job[t].op.name
    /\ unsolicited = 0
    /\ \E i \in (popped + 1)..Len(arrived) :
          arrived[i] = OkItem(Answer(job[t].op, success))

\* C4: with two concurrent callers install("a") and install("b"), a
\* caller whose ack is in the stream eventually returns the success flag
\* of that ack (unless the engine sends something else meanwhile).
InstallReturnsOwnAck ==
    \A t \in Tasks : \A success \in BOOLEAN :
        AckInStream(t, success)
            ~> (result[t] = Ok(BoolText(success)) \/ unsolicited > 0)

\* C5: a %%<message frame whose id no subscription awaits is returned as
\* Match to the subscription of Watch when one is registered, and as
\* NoMatch only when none is.
FallbackDelivery ==
    \A i \in 1..Len(deliveries) :
        (deliveries[i].topic.k = "MessageAck"
            /\ deliveries[i].topic \notin deliveries[i].registered)
        => IF Watch \in deliveries[i].registered
           THEN deliveries[i].kind = "Match" /\ deliveries[i].self = Watch
           ELSE deliveries[i].kind = "NoMatch"

\* no ack of the install task t awaits has arrived
NoAckArrived(t) ==
    \A i \in 1..Len(arrived) : \A success \in BOOLEAN :
        arrived[i] # OkItem(Answer(job[t].op, success))

\* C10: a request outstanding when the stream has ended, its ack not
\* having arrived and nothing being left in the stream, eventually returns
\* UnexpectedEof.
EofFailsEveryRequest ==
    \A t \in Tasks :
        (eof /\ Stream = <<>> /\ Outstanding(t) /\ job[t].op.op = "install"
             /\ NoAckArrived(t))
            ~> (result[t] = Err("UnexpectedEof"))

\* the frame at place n of the stream, as a Message and as an ErrorIn
AsMessage(n) == from_str(Message, arrived[n].line)
AsErrorIn(n) == from_str(ErrorIn, arrived[n].line)

\* the line is a MessageAck echoing the message m, unprocessed and unnamed
Echoes(a, m) ==
    /\ a.ok
    /\ a.val.id = m.id
    /\ a.val.processed = FALSE
    /\ a.val.name = None
    /\ a.val.retvalue = m.retvalue
    /\ a.val.kv = m.kv

IsDefaultAck(line, m) == Echoes(from_str(MessageAck, line), m)

\* the delivery d was answered with `line`: being written, or written
Answered(d, line) ==
    \/ InFlight(d.by, d.n) /\ job[d.by].item = line
    \/ \E k \in Written(d.by, d.n) : sent[d.by][k].item = line

\* nothing is or was written for the delivery d
Unanswered(d) == \A t \in Tasks : ~InFlight(t, d.n) /\ Written(t, d.n) = {}

\* the delivery d is of a frame no subscription matched
IsNoMatch(d) == d.kind = "NoMatch" /\ arrived[d.n].ok

NoMessages(d) == Topic("Message", NoKey) \notin d.registered

\* nor was a watches() subscription
NoWatches(d) == Watch \notin d.registered

NoReplyToErrorIn ==
    \A i \in 1..Len(deliveries) :
        (arrived[deliveries[i].n].ok /\ AsErrorIn(deliveries[i].n).ok)
            => Unanswered(deliveries[i])

\* an `Error in` frame was returned to a task, which polls again
ErrorInReceived ==
    \E i \in 1..Len(deliveries) :
        /\ arrived[deliveries[i].n].ok /\ AsErrorIn(deliveries[i].n).ok
        /\ pc[deliveries[i].by] = "wait"
        /\ popped >= deliveries[i].n

\* C9: no two tasks hold a subscription of the same topic, the slots are
\* those of the subscriptions held, and a subscribe that found a slot has
\* panicked and holds none.
OneSlotPerTopic ==
    /\ \A t \in Tasks : \A u \in Tasks \ {t} :
          sub[t] # NoTopic => sub[t] # sub[u]
    /\ DOMAIN wakers = {sub[t] : t \in Tasks} \ {NoTopic}
    /\ \A t \in Tasks : pc[t] = "panicked" => sub[t] = NoTopic

\* a task subscribed a topic another task holds, and panicked
DuplicatePanicked ==
    \E t \in Tasks : \E u \in Tasks \ {t} :
        /\ pc[t] = "panicked"
        /\ sub[u] = TopicOf(job[t].op)

----------------------------------------------------------------------------

\* the delivery d yielded a Request to the loop over messages()
YieldsRequest(d) == d.kind = "Match" /\ d.topic = Topic("Message", NoKey)

\* the line is a MessageAck with the id of the message m
AcksId(line, m) ==
    from_str(MessageAck, line).ok /\ from_str(MessageAck, line).val.id = m.id

\* an ack of the Request of delivery d is being written, or was written
AckWritten(d) ==
    \/ /\ InFlight(d.by, d.n)
       /\ job[d.by].phase = "ack"
       /\ AcksId(job[d.by].item, AsMessage(d.n).val)
    \/ \E k \in Written(d.by, d.n) :
          /\ sent[d.by][k].why = "ack"
          /\ AcksId(sent[d.by][k].item, AsMessage(d.n).val)

\* C12: every Request the message loop received from messages() is
\* acknowledged, whether its handler succeeded or failed: a `%%<message`
\* line with the id of the Request is written by ack, short of the loop being
\* dropped or the write failing.
EveryRequestAcked ==
    \A i \in 1..Len(deliveries) :
        YieldsRequest(deliveries[i]) =>
            \/ pc[deliveries[i].by] \in {"cancelled", "failed"}
            \/ AckWritten(deliveries[i])

----------------------------------------------------------------------------

\* the lines of the sends that took the lock, in the order they took it
LockOrder == [k \in 1..Len(locked) |-> locked[k].item]

\* the sequence a is b with some of its elements left out
RECURSIVE IsSubseq(_, _)
IsSubseq(a, b) ==
    IF a = <<>> THEN TRUE
    ELSE IF b = <<>> THEN FALSE
    ELSE IF Head(a) = Head(b) THEN IsSubseq(Tail(a), Tail(b))
    ELSE IsSubseq(a, Tail(b))

\* the characters written after the last newline
Unfinished == split(wire, LF)[Len(split(wire, LF))]

\* no write of send has failed
NoWriteFailed == \A t \in Tasks : pc[t] # "failed"

\* C13: the characters on the outbound stream are whole `<frame>\n` units,
\* one for each send that wrote, in the order the sends took the lock: every
\* complete line is the line of one send, and the lines follow the order of
\* the locks.
WireOfWholeFrames == NoWriteFailed => IsSubseq(OutLines, LockOrder)

\* C14: no frame is left truncated: characters that follow the last newline
\* are the line of the send that holds the lock and is about to write the
\* newline, whatever calls were dropped by their callers.
FrameCompleted ==
    (NoWriteFailed /\ Unfinished # <<>>) =>
        /\ txOwner # NoTask
        /\ pc[txOwner] = "send_nl"
        /\ job[txOwner].item = Unfinished

----------------------------------------------------------------------------

\* the topics of the Subs the tasks hold
Held == {sub[t] : t \in Tasks} \ {NoTopic}

\* C15: every slot of the topic map belongs to a Sub that is alive: a call
\* that completed, failed or was dropped has removed its slot in the step
\* that dropped its Sub.
NoSlotLeaked == DOMAIN wakers \subseteq Held

\* a call was dropped while it waited for its ack, and the slot of its topic
\* is gone, while another call still waits on its own slot
SlotOfCancelledRemoved ==
    \E t \in Tasks, u \in Tasks :
        /\ pc[t] = "cancelled"
        /\ job[t].op.op = "install"
        /\ sent[t] # <<>>
        /\ TopicOf(job[t].op) \notin DOMAIN wakers
        /\ sub[u] # NoTopic
        /\ sub[u] \in DOMAIN wakers

----------------------------------------------------------------------------

\* The lock of the inbound stream is taken and released inside poll_next,
\* that is within one step of a task that is polled while it waits on its
\* Sub; the lock of tx is held from SendLock to the end of send.

\* the task holding the lock of tx is inside send, and a task that polls its
\* Sub neither holds that lock nor waits for it
LocksApart ==
    \A t \in Tasks :
        /\ txOwner = t => pc[t] \in {"send_item", "send_nl", "send_flush"}
        /\ t \in txWaiters => pc[t] = "send_lock"
        /\ pc[t] = "wait" => txOwner # t /\ t \notin txWaiters

\* when tasks wait for the lock of tx, a task holds it and is writing, or a
\* task has been woken to take it
LockMoves ==
    txWaiters # {} =>
        \/ txOwner # NoTask
        \/ \E w \in Tasks : pc[w] = "send_lock" /\ sched[w] /\ w \notin txWaiters

\* a step that takes an item from the inbound stream neither takes the lock
\* of tx nor writes
PollTakesNoLock == popped' # popped => txOwner' = txOwner /\ wire' = wire

\* C16: the two locks are never held together: the outbound lock is held
\* only inside send, a poll of the inbound stream is a step of a task that
\* does not hold it, the default response begins its write in a later step
\* than the poll that returned the unhandled item, and tasks waiting for
\* the outbound lock always have a task that can release or take it.
LocksNeverNested == [](LocksApart /\ LockMoves) /\ [][PollTakesNoLock]_vars

\* a default response is being written under the outbound lock while another
\* task waits for that lock
DefaultResponseHoldsLock ==
    \E t \in Tasks :
        /\ txOwner = t
        /\ job[t].phase = "default"
        /\ txWaiters # {}

----------------------------------------------------------------------------

QuitAckTopic == Topic("QuitAck", NoKey)

\* the delivery d is the QuitAck returned to the caller of quit
IsQuit(d) == d.kind = "Match" /\ d.topic = QuitAckTopic

\* task t holds a Sub that was registered when a call of quit by another
\* task received its QuitAck and emptied the map
Outlived(t) ==
    /\ sub[t] # NoTopic
    /\ \E i \in 1..Len(deliveries) :
          /\ IsQuit(deliveries[i])
          /\ deliveries[i].by # t
          /\ sub[t] \in deliveries[i].registered

\* a step of task t polling its Sub
Polls(t) ==
    /\ pc[t] = "wait"
    /\ sched[t]
    /\ \/ pc'[t] # pc[t]
       \/ sched'[t] # sched[t]
       \/ /\ Len(deliveries') > Len(deliveries)
          /\ deliveries'[Len(deliveries')].by = t

\* C11: once quit has received the QuitAck and emptied the map, the next
\* poll of every Sub that was outstanding then returns None, so its stream
\* ends, and takes no item from the inbound stream.
QuitEndsStreams ==
    [][\A t \in Tasks :
          (Outlived(t) /\ Polls(t)) =>
              /\ sub'[t] = NoTopic
              /\ pc'[t] = "done"
              /\ result'[t] \in {Ok("end"), Err("UnexpectedEof")}
              /\ popped' = popped]_vars

----------------------------------------------------------------------------

\* C17: within one topic the frames pair with the callers in order: a frame
\* the engine sent in answer to a request is returned as a Match to the Sub
\* of that request, never as NoMatch to another Sub, and the items returned
\* by the Subs follow the order of their arrival on the stream.
InOrderPairing ==
    /\ \A i \in 1..Len(deliveries) :
          deliveries[i].kind = "NoMatch" => deliveries[i].topic.k # "InstallAck"
    /\ \A i \in 1..Len(deliveries), j \in 1..Len(deliveries) :
          i < j => deliveries[i].n < deliveries[j].n

----------------------------------------------------------------------------

\* C19: the "not ack'ed" diagnostic is emitted for a Request exactly when it
\* is dropped without having been passed to ack, that is, when it still
\* holds its Message at its drop; a Request that ack consumed emits none.
DiagnosticIffNotAcked ==
    \A i \in 1..Len(dropped) : dropped[i].logged <=> ~dropped[i].acked

\* a Request was dropped by a handler that failed
RefusedLogged ==
    \E j \in 1..Len(dropped) : ~dropped[j].acked /\ dropped[j].logged

----------------------------------------------------------------------------

\* the item the step has just returned, and the task it returned it to
Returned == deliveries'[Len(deliveries')]
Returns(kind) ==
    /\ Len(deliveries') = Len(deliveries) + 1
    /\ Returned.kind = kind
    /\ arrived[Returned.n].ok

\* the step returns to a call an item no subscription matched, and
\* default_response has no answer to it
NothingToAnswer ==
    /\ Returns("NoMatch")
    /\ ~DefaultResponse[arrived[Returned.n].line].send

\* an item returned as NoMatch leaves the call that polled it as it was:
\* no result, its Sub and slot kept; when nothing is to be answered the call
\* waits again at once and nothing is written
NoMatchGoesOn ==
    Returns("NoMatch") =>
        /\ result'[Returned.by] = result[Returned.by]
        /\ sub'[Returned.by] = sub[Returned.by]
        /\ sub[Returned.by] \in DOMAIN wakers'
        /\ pc'[Returned.by] \in {"wait", "send_lock"}
        /\ NothingToAnswer => /\ pc'[Returned.by] = "wait"
                              /\ sched'[Returned.by]
                              /\ job'[Returned.by] = job[Returned.by]
                              /\ wire' = wire

\* an install whose ack is returned to it returns the ack's success,
\* whatever it was returned before
OwnAckReturned ==
    (Returns("Match") /\ job[Returned.by].op.op = "install") =>
        result'[Returned.by] =
            Ok(BoolText(InstallAckOf[arrived[Returned.n].line].val.success))

\* a call that ends while it writes a default reply ends with the I/O error
\* of the write
OnlyWriteFails ==
    \A t \in Tasks :
        (job[t].phase = "default" /\ pc[t] \in Sending /\ result'[t] # result[t])
            => result'[t] = Err("Io") /\ pc'[t] = "failed"

\* C20: an unknown or unexpected frame, returned as NoMatch, never fails the
\* request that polled it: the frame is logged and dropped, the request
\* keeps waiting and returns its own ack when it arrives; the only error of
\* the default path that reaches the request is the I/O error of the write
\* of a default reply.
UnknownNeverFatal ==
    [][NoMatchGoesOn /\ OwnAckReturned /\ OnlyWriteFails]_vars

\* an install was returned a frame that is nothing it knows, went on
\* waiting, and has returned the success of its own ack
AckAfterUnknown ==
    \E i \in 1..Len(deliveries), j \in 1..Len(deliveries) :
        /\ i < j
        /\ deliveries[i].by = deliveries[j].by
        /\ IsNoMatch(deliveries[i])
        /\ arrived[deliveries[i].n].line = FrameUnknown
        /\ deliveries[j].kind = "Match"
        /\ job[deliveries[i].by].op.op = "install"
        /\ pc[deliveries[i].by] = "done"
        /\ result[deliveries[i].by].st = "ok"

----------------------------------------------------------------------------

\* the calls of message that task t has made and that are not over
InFlightMessage(t) ==
    job[t].op.op = "message" /\ pc[t] \in Sending \cup {"wait", "panicked"}

\* C18: no two calls of message() use the same id, so two calls of message
\* in flight never subscribe the same topic MessageAck(id).
MessageIdsUnique ==
    \A t \in Tasks, u \in Tasks :
        (t # u /\ InFlightMessage(t) /\ InFlightMessage(u))
            => job[t].op.name # job[u].op.name

----------------------------------------------------------------------------

\* C21: every fixture frame F of every record type R deserializes, and
\* serializing what it deserialized to gives F again, the frames with
\* '%'-escapes included.
FixturesRoundTrip ==
    (fmt.f = "from_str" /\ Fixture(fmt.shape, fmt.input) \in Fixtures) =>
        /\ fmt.at >= 1 => fmt.r1.ok
        /\ fmt.at = 2 => fmt.r2 = fmt.input

----------------------------------------------------------------------------

\* C22: for every text s made of ASCII control characters, '%', ':' and
\* printable characters, decode(encode(s)) succeeds and is s.
EncodeThenDecode ==
    (fmt.f = "encode" /\ fmt.at = 2) => fmt.r2 = [ok |-> TRUE, v |-> fmt.input]

\* the escapes of a text, as decode reads them: a '%' that is not itself
\* the second character of an escape
RECURSIVE IsEscape(_, _)
IsEscape(e, i) == e[i] = Percent /\ (i = 1 \/ ~IsEscape(e, i - 1))

Escapes(e) == {i \in 1..Len(e) : IsEscape(e, i)}

\* every '%' of e is followed by '%' or by a character of 64..=127
ValidlyEscaped(e) ==
    \A i \in Escapes(e) :
        /\ i < Len(e)
        /\ e[i + 1] = Percent \/ (e[i + 1] >= UpcodeShift /\ e[i + 1] <= AsciiDel)

\* C23 as stated: for every validly-escaped text e, encode(decode(e)) is e.
DecodeThenEncode ==
    (fmt.f = "decode" /\ ValidlyEscaped(fmt.input)) =>
        /\ fmt.at >= 1 => fmt.r1.ok
        /\ fmt.at = 2 => fmt.r2.v = fmt.input

\* e is a text encode can return: no control character and no ':' stands
\* outside an escape, and every escape is "%%", "%z" or '%' with a
\* character of 64..=95
Canonical(e) ==
    /\ ValidlyEscaped(e)
    /\ \A i \in 1..Len(e) :
          IF i \in Escapes(e) THEN TRUE
          ELSE IF i > 1 /\ (i - 1) \in Escapes(e)
               THEN \/ e[i] = Percent
                    \/ e[i] = Colon + UpcodeShift
                    \/ (e[i] >= UpcodeShift /\ e[i] < AsciiSpace + UpcodeShift)
          ELSE ~is_ascii_control(e[i]) /\ e[i] # Colon

\* C23, amended: for every text e in which no control character and no ':'
\* stands unescaped and every '%' is followed by '%', by 'z' or by a
\* character of 64..=95, encode(decode(e)) is e.
DecodeThenEncodeCanonical ==
    (fmt.f = "decode" /\ Canonical(fmt.input)) =>
        /\ fmt.at >= 1 => fmt.r1.ok
        /\ fmt.at = 2 => fmt.r2.v = fmt.input

\* a text with an escape in it has been decoded and encoded again
EscapeDecodedAndEncoded ==
    /\ fmt.f = "decode" /\ fmt.at = 2
    /\ Canonical(fmt.input)
    /\ \E i \in Escapes(fmt.input) : fmt.input[i + 1] # Percent

\* C24: deserializing a frame whose first segment is not the tag of the
\* record returns MismatchedTag, and deserializing an empty input returns
\* MissingTag.
TagErrors ==
    (fmt.f = "from_str" /\ fmt.at >= 1) =>
        /\ fmt.input = <<>> => fmt.r1 = DeErr("MissingTag")
        /\ (fmt.input # <<>> /\ Head(split(fmt.input, Colon)) # ShapeOf(fmt.shape).tag)
              => fmt.r1 = DeErr("MismatchedTag")

\* a is a prefix of b
IsPrefix(a, b) == Len(a) <= Len(b) /\ SubSeq(b, 1, Len(a)) = a

\* C25: a frame of a record cut at any of its trailing optional fields
\* still deserializes, and serializing the result gives a frame that
\* starts with the cut one.
TruncatedDeserializes ==
    (fmt.f = "from_str" /\ Fixture(fmt.shape, fmt.input) \in Truncations) =>
        /\ fmt.at >= 1 => fmt.r1.ok
        /\ fmt.at = 2 => IsPrefix(fmt.input, fmt.r2)

\* the escapes of e whose second character is neither '%' nor of 64..=127
BadEscapes(e) ==
    {i \in Escapes(e) : i < Len(e) /\ e[i + 1] # Percent
                          /\ (e[i + 1] < UpcodeShift \/ e[i + 1] > AsciiDel)}

\* e without its escapes: "%%" is '%', "%X" the character X - 64, and a
\* '%' that ends e is nothing
RECURSIVE Unescaped(_, _)
Unescaped(e, i) ==
    IF i > Len(e) THEN <<>>
    ELSE IF e[i] # Percent THEN <<e[i]>> \o Unescaped(e, i + 1)
    ELSE IF i = Len(e) THEN <<>>
    ELSE <<(IF e[i + 1] = Percent THEN Percent ELSE e[i + 1] - UpcodeShift)>>
            \o Unescaped(e, i + 2)

\* C26: decode fails with a decode error that carries the offending
\* character whenever a '%' is followed by a character that is neither '%'
\* nor of 64..=127, and otherwise maps "%%" to '%' and "%X" to the
\* character of value X - 64.
DecodeErrorOrUnescaped ==
    (fmt.f = "decode" /\ fmt.at >= 1) =>
        IF BadEscapes(fmt.input) # {}
        THEN fmt.r1 = [ok |-> FALSE, err |-> fmt.input[Least(BadEscapes(fmt.input)) + 1]]
        ELSE fmt.r1 = [ok |-> TRUE, v |-> Unescaped(fmt.input, 1)]

\* decode has refused "a%\n": the error carries the line feed
BadUpcodeRejected ==
    /\ fmt.f = "decode" /\ fmt.at >= 1
    /\ fmt.input = <<97, Percent, LF>>
    /\ fmt.r1 = [ok |-> FALSE, err |-> LF]

----------------------------------------------------------------------------

\* C27: no acknowledgement is lost between the sending of a request and the
\* subscription of its topic: no poll returns as NoMatch a frame of the topic
\* a call is about to subscribe, while that call is still sending its request.
AckNotLostWhileSending ==
    [][\A u \in Tasks :
          (Returns("NoMatch") /\ pc[u] \in Sending /\ job[u].phase = "request")
              => Returned.topic # TopicOf(job[u].op)]_vars

----------------------------------------------------------------------------
(* Calls whose future is dropped, with every task that can run running.     *)

NextCancel ==
    \/ Next
    \/ \E t \in Tasks : Cancel(t)

CancelSpec == Init /\ [][NextCancel]_vars

FairCancelSpec == CancelSpec /\ \A t \in Tasks : WF_vars(Run(t))

\* the most items the stream can yield
MaxArrived == MaxUnsolicited + Cardinality(Requests)

\* the n-th item is at the head of the stream and is of the topic of a call
\* that was cancelled, no slot is left for that topic, and a poller that is
\* still subscribed has gone pending
HeadOfDropped(n) ==
    /\ popped = n - 1 /\ Len(arrived) >= n /\ arrived[n].ok
    /\ TopicOfItem[arrived[n].line] \notin DOMAIN wakers
    /\ \E b \in Tasks : /\ pc[b] = "cancelled"
                        /\ TopicOf(job[b].op) = TopicOfItem[arrived[n].line]
    /\ \E a \in Tasks : pc[a] = "wait" /\ sub[a] \in DOMAIN wakers /\ ~sched[a]

\* C28: dropping a subscription never strands the stream: when a poller
\* went pending on a head frame destined to another subscription and that
\* subscription is dropped before it consumed the frame, the frame is
\* eventually consumed by a subscription that remains.
DropNeverStrands ==
    \A n \in 1..MaxArrived :
        HeadOfDropped(n) ~> (popped >= n \/ DOMAIN wakers = {})

----------------------------------------------------------------------------

\* C30: dropping a Sub removes only the slot made for it: a subscription
\* registered after quit has emptied the map stays registered when a Sub
\* that was made before is dropped.
DropKeepsNewSlot ==
    [][\A t \in Tasks, u \in Quitters :
          (/\ t # u
           /\ sub[t] # NoTopic /\ sub'[t] = NoTopic
           /\ result[u] = Ok("quit") /\ sub[u] \in DOMAIN wakers)
              => sub[u] \in DOMAIN wakers']_vars

----------------------------------------------------------------------------
(* Sub::poll_next on an executor with several threads: the Subs of one hub   *)
(* are polled by tasks that run at the same time, so a poll is not one step: *)
(* it registers its waker, tries the lock of the stream, looks at the head   *)
(* of the stream, and lets go of the lock when it returns.                   *)

\* the topics of the Subs that are polled, each by a task of its own
Polled == {Topic("Watch", NoKey), Topic("Message", NoKey)}

NoSub == NoTopic

\* the most items the inbound stream yields to them
MaxFrames == MaxUnsolicited + 1

\* two Subs are subscribed and their tasks are spawned: `at` is where the
\* poll of each Sub is, `woken` whether its task is to be polled, `slot`
\* whether its AtomicWaker holds a waker, `holder` who holds the lock of
\* the stream, `reader` whose waker the inbound stream holds, and `blocked`
\* whether its last poll returned at the lock
Spawned ==
    [on |-> TRUE,
     at |-> [s \in Polled |-> "out"],
     woken |-> [s \in Polled |-> TRUE],
     slot |-> [s \in Polled |-> FALSE],
     holder |-> NoSub,
     reader |-> NoSub,
     stream |-> <<>>,
     taken |-> 0,
     blocked |-> [s \in Polled |-> FALSE]]

ThreadInit ==
    /\ Constructed
    /\ fmt = NoCall
    /\ mt = Spawned
    /\ hub = NoHub
    /\ att = NoAttach

\* the task of s is polled: poll_next finds its slot and registers the waker
PollRegister(s) ==
    /\ mt.on /\ mt.at[s] = "out" /\ mt.woken[s]
    /\ mt' = [mt EXCEPT !.at[s] = "lock", !.woken[s] = FALSE, !.slot[s] = TRUE,
                        !.blocked[s] = FALSE]
    /\ UNCHANGED << engine, fmt, hub, att >>

\* ready!(self.inner.stream.lock().poll_unpin(cx)): the lock is taken, or the
\* poll returns Pending and the lock future, with its place among those that
\* wait for the lock, is dropped at the end of the statement
PollLock(s) ==
    /\ mt.on /\ mt.at[s] = "lock"
    /\ IF mt.holder = NoSub
       THEN mt' = [mt EXCEPT !.holder = s, !.at[s] = "peek"]
       ELSE mt' = [mt EXCEPT !.at[s] = "out", !.blocked[s] = TRUE]
    /\ UNCHANGED << engine, fmt, hub, att >>

\* the poll, holding the lock, peeks the stream: nothing there, and the stream
\* keeps the waker; an item of its own topic, popped as a Match, and the task
\* goes on to poll again; an item of the other Sub, whose waker is woken
PollPeek(s) ==
    /\ mt.on /\ mt.at[s] = "peek"
    /\ IF mt.taken = Len(mt.stream)
       THEN mt' = [mt EXCEPT !.reader = s, !.at[s] = "unlock"]
       ELSE IF mt.stream[mt.taken + 1] = s
       THEN mt' = [mt EXCEPT !.taken = @ + 1, !.woken[s] = TRUE, !.at[s] = "unlock"]
       ELSE mt' = [mt EXCEPT !.woken = [x \in Polled |->
                                          IF x = mt.stream[mt.taken + 1] /\ mt.slot[x]
                                          THEN TRUE ELSE mt.woken[x]],
                             !.slot[mt.stream[mt.taken + 1]] = FALSE,
                             !.at[s] = "unlock"]
    /\ UNCHANGED << engine, fmt, hub, att >>

\* poll_next returns: the guard of the lock is dropped, and nobody waits
\* for the lock
PollUnlock(s) ==
    /\ mt.on /\ mt.at[s] = "unlock"
    /\ mt' = [mt EXCEPT !.holder = NoSub, !.at[s] = "out"]
    /\ UNCHANGED << engine, fmt, hub, att >>

\* an item of topic s arrives: the stream wakes the waker it holds
Feed(s) ==
    /\ mt.on /\ Len(mt.stream) < MaxFrames
    /\ mt' = [mt EXCEPT !.stream = Append(@, s),
                        !.reader = NoSub,
                        !.woken = [x \in Polled |->
                                      IF x = mt.reader THEN TRUE ELSE mt.woken[x]]]
    /\ UNCHANGED << engine, fmt, hub, att >>

\* the steps of the task that polls s
Thread(s) == PollRegister(s) \/ PollLock(s) \/ PollPeek(s) \/ PollUnlock(s)

ThreadNext ==
    \/ \E s \in Polled : PollRegister(s)
    \/ \E s \in Polled : PollLock(s)
    \/ \E s \in Polled : PollPeek(s)
    \/ \E s \in Polled : PollUnlock(s)
    \/ \E s \in Polled : Feed(s)

ThreadSpec == ThreadInit /\ [][ThreadNext]_vars

\* every task that can take a step takes it
FairThreadSpec == ThreadSpec /\ \A s \in Polled : WF_vars(Thread(s))

\* the last poll of s returned at the lock, and the item at the head of the
\* stream is of its topic
BlockedAtHead(s) ==
    /\ mt.on /\ mt.blocked[s]
    /\ mt.taken < Len(mt.stream) /\ mt.stream[mt.taken + 1] = s

\* C29: a poll that finds the lock of the stream held by another poll is
\* polled again once the lock is released: no Sub whose item is waiting stays
\* pending forever because it gave up its wait for the lock.
LockWaitIsPolledAgain ==
    \A s \in Polled : BlockedAtHead(s) ~> ~mt.blocked[s]

----------------------------------------------------------------------------

\* C38: decode accepts only validly escaped texts: a text whose last
\* character is a '%' that starts an escape, with no character after it, is
\* refused with a decode error and never decoded with the '%' dropped.
UnpairedPercentRejected ==
    (/\ fmt.f = "decode" /\ fmt.at >= 1
     /\ fmt.input # <<>> /\ IsEscape(fmt.input, Len(fmt.input)))
        => ~fmt.r1.ok

----------------------------------------------------------------------------

\* the k-th segment of a frame, or nothing
Segment(frame, k) ==
    IF k <= Len(split(frame, Colon)) THEN split(frame, Colon)[k] ELSE <<>>

\* the topic the tag of a frame and its correlation field stand for
TopicByTag(frame) ==
    CASE Segment(frame, 1) = TagInstallAck -> Topic("InstallAck", Segment(frame, 3))
      [] Segment(frame, 1) = TagUninstallAck -> Topic("UninstallAck", Segment(frame, 3))
      [] Segment(frame, 1) = TagWatchAck -> Topic("WatchAck", Segment(frame, 2))
      [] Segment(frame, 1) = TagUnwatchAck -> Topic("UnwatchAck", Segment(frame, 2))
      [] Segment(frame, 1) = TagSetLocalAck -> Topic("SetLocalAck", Segment(frame, 2))
      [] Segment(frame, 1) = TagMessage -> Topic("Message", NoKey)
      [] Segment(frame, 1) = TagMessageAck -> Topic("MessageAck", Segment(frame, 2))
      [] Segment(frame, 1) = TagQuitAck -> Topic("QuitAck", NoKey)
      [] OTHER -> Topic("Other", NoKey)

\* C34: the topic of a frame depends only on its tag and its correlation
\* field: a frame tagged as an ack maps to the ack topic keyed by its name
\* (or id), "%%>message" to Message, "%%<quit" to QuitAck, and every other
\* frame to Other.
TopicFromTagAndKey ==
    (fmt.f = "topic" /\ fmt.at >= 1) => fmt.r1.v = TopicByTag(fmt.input)

----------------------------------------------------------------------------

\* C33: correlation survives escaping: for every name n, the topic of the
\* ack frame that carries n encoded is the topic install subscribes for n.
AckTopicIsSubscribedTopic ==
    (fmt.f = "install" /\ fmt.at = 2)
        => fmt.r2.v = TopicOf(Op("install", fmt.input, None))

----------------------------------------------------------------------------

\* C36: setlocal(name, value) and getlocal(name) never write the same
\* frame, whatever the value, the empty text included.
SetLocalIsNotGetLocal ==
    (fmt.f = "setlocal" /\ fmt.at = 2) => fmt.r1.v # fmt.r2.v

----------------------------------------------------------------------------

\* C37: for every record r, deserializing the serialization of r succeeds
\* and gives r, maps whose keys or values contain '=', ':', '%' or control
\* characters and optional fields holding an empty text included.
RecordRoundTrip ==
    (fmt.f = "to_string" /\ fmt.at = 2)
        => fmt.r2 = [ok |-> TRUE, val |-> Value(fmt.shape, fmt.input)]

----------------------------------------------------------------------------

\* the acks of the message of the n-th item: the tasks that are writing a
\* MessageAck with its id, and the lines with its id that were written
AcksInFlight(n) ==
    {t \in Tasks : InFlight(t, n) /\ AcksId(job[t].item, AsMessage(n).val)}

AcksWritten(n) ==
    UNION { { <<t, k>> : k \in {j \in Written(t, n) :
                                   AcksId(sent[t][j].item, AsMessage(n).val)} } :
            t \in Tasks }

\* C32: each "%%>message" frame read from the stream is answered by
\* exactly one "%%<message" frame with its id, the ack of the handler or the
\* default response, never both and never neither (a task whose write
\* failed or whose call was dropped aside).
ExactlyOneAck ==
    \A i \in 1..Len(deliveries) :
        (/\ arrived[deliveries[i].n].ok
         /\ AsMessage(deliveries[i].n).ok
         /\ pc[deliveries[i].by] \notin {"cancelled", "failed"})
            => Cardinality(AcksInFlight(deliveries[i].n))
                 + Cardinality(AcksWritten(deliveries[i].n)) = 1

----------------------------------------------------------------------------

\* C31: a subscribe that panics because its topic is already subscribed
\* leaves the wakers map as it was: the slot of the subscription held and
\* the waker registered in it.
DuplicateLeavesWakers ==
    [][\A t \in Tasks :
          (pc[t] # "panicked" /\ pc'[t] = "panicked") => wakers' = wakers]_vars

----------------------------------------------------------------------------
(* pubsub/: the hub with a publisher.  publish stores the item in the data  *)
(* slot and waits to be polled again; the Sub of the topic takes it.  An    *)
(* item is told by its topic; the task of a Sub is named after its topic.   *)

\* the topics that are subscribed and published
HubTopics == {Topic("Watch", NoKey), Topic("Message", NoKey)}

\* the task that polls the Sub of a topic
TaskOf(t) == t.k

\* PubSub::default(): no slot, no item; nothing is being published
Made ==
    [on |-> TRUE,
     dropped |-> FALSE,      \* the PubSub is dropped
     wakers |-> [x \in {} |-> NoTask],
     subs |-> {},            \* the topics whose Sub is held
     data |-> NoTopic,       \* Inner::data: the item stored, or none
     at |-> "idle",          \* where publish is
     signal |-> FALSE,       \* Inner::signal holds the waker of the publisher
     notified |-> FALSE,     \* the publisher was woken by a Sub
     woken |-> {},           \* the tasks of the Subs that were woken
     result |-> "none"]      \* what the last publish returned

HubInit ==
    /\ Constructed
    /\ fmt = NoCall
    /\ mt = NoThreads
    /\ hub = Made
    /\ att = NoAttach

\* PubSub::subscribe
HubSubscribe(t) ==
    /\ hub.on /\ ~hub.dropped
    /\ hub' = [hub EXCEPT
                 !.wakers = subscribe(hub.wakers, t).wakers,
                 !.subs = IF subscribe(hub.wakers, t).panic
                          THEN @ ELSE @ \cup {t}]
    /\ UNCHANGED << engine, fmt, mt, att >>

\* the first poll of PubSub::publish: without a slot of the topic the item
\* is given back; else it is stored, the waker of the publisher is
\* registered in the signal, the Sub of the topic is woken, and the call is
\* pending
Publish(i) ==
    /\ hub.on /\ ~hub.dropped
    /\ hub.at = "idle"
    /\ IF i \notin DOMAIN hub.wakers
       THEN hub' = [hub EXCEPT !.result = "err"]
       ELSE IF hub.data # NoTopic
       THEN hub' = [hub EXCEPT !.at = "unreachable", !.result = "none"]
       ELSE hub' = [hub EXCEPT
                      !.data = i,
                      !.at = "pending",
                      !.signal = TRUE,
                      !.notified = FALSE,
                      !.wakers = [@ EXCEPT ![i] = NoTask],
                      !.woken = @ \cup ({hub.wakers[i]} \ {NoTask}),
                      !.result = "none"]
    /\ UNCHANGED << engine, fmt, mt, att >>

\* the publisher is polled after a Sub has woken it: poll_fn is ready
Resume ==
    /\ hub.on /\ hub.at = "pending" /\ hub.notified
    /\ hub' = [hub EXCEPT !.at = "idle", !.notified = FALSE, !.result = "ok"]
    /\ UNCHANGED << engine, fmt, mt, att >>

\* the publisher is polled though no Sub has woken it: poll_fn is ready as
\* well, `registered` is all it looks at
SpuriousWake ==
    /\ hub.on /\ hub.at = "pending" /\ ~hub.notified
    /\ hub' = [hub EXCEPT !.at = "idle", !.result = "ok"]
    /\ UNCHANGED << engine, fmt, mt, att >>

\* the future of publish is dropped while it is pending
CancelPublish ==
    /\ hub.on /\ hub.at = "pending"
    /\ hub' = [hub EXCEPT !.at = "idle", !.notified = FALSE, !.result = "none"]
    /\ UNCHANGED << engine, fmt, mt, att >>

\* Sub::poll_next of pubsub/: without a slot the stream has ended; else the
\* waker is registered, and an item of the topic is taken and the publisher
\* woken, any other value is left in the slot
HubPollNext(t) ==
    /\ hub.on /\ t \in hub.subs
    /\ IF t \notin DOMAIN hub.wakers
       THEN hub' = [hub EXCEPT !.woken = @ \ {TaskOf(t)}]
       ELSE IF hub.data = t
       THEN hub' = [hub EXCEPT
                      !.wakers = [@ EXCEPT ![t] = TaskOf(t)],
                      !.woken = @ \ {TaskOf(t)},
                      !.data = NoTopic,
                      !.notified = hub.signal \/ @,
                      !.signal = FALSE]
       ELSE hub' = [hub EXCEPT
                      !.wakers = [@ EXCEPT ![t] = TaskOf(t)],
                      !.woken = @ \ {TaskOf(t)}]
    /\ UNCHANGED << engine, fmt, mt, att >>

\* Drop for Sub of pubsub/
HubDropSub(t) ==
    /\ hub.on /\ t \in hub.subs
    /\ hub' = [hub EXCEPT
                 !.wakers = drop(hub.wakers, t),
                 !.subs = @ \ {t},
                 !.woken = @ \ {TaskOf(t)}]
    /\ UNCHANGED << engine, fmt, mt, att >>

\* Drop for PubSub: no publish borrows it
HubDrop ==
    /\ hub.on /\ ~hub.dropped
    /\ hub.at = "idle"
    /\ hub' = [hub EXCEPT
                 !.dropped = TRUE,
                 !.wakers = unsubscribe_all(hub.wakers).wakers,
                 !.woken = @ \cup unsubscribe_all(hub.wakers).woken]
    /\ UNCHANGED << engine, fmt, mt, att >>

HubNext ==
    \/ \E t \in HubTopics : HubSubscribe(t)
    \/ \E i \in HubTopics : Publish(i)
    \/ Resume
    \/ SpuriousWake
    \/ CancelPublish
    \/ \E t \in HubTopics : HubPollNext(t)
    \/ \E t \in HubTopics : HubDropSub(t)
    \/ HubDrop

HubSpec == HubInit /\ [][HubNext]_vars

\* C39: publish never finds an item in the data slot when it stores one:
\* the `unreachable!` of publish is not reached.
SlotEmptyWhenStored == hub.on => hub.at # "unreachable"

----------------------------------------------------------------------------
(* Engine::attach: one task polls the three futures of try_join!, in order: *)
(* the loop over watches(), the loop over messages() with its handlers, and *)
(* module.install, which here waits for a signal, calls quit() and returns  *)
(* Ok.  The three share the waker of the task.                              *)

AttachTask == "attach"

WatchTopic == TopicOf(Op("watches", NoKey, None))
MessageTopic == TopicOf(Op("messages", NoKey, None))
QuitTopic == TopicOf(Op("quit", NoKey, None))

\* the lines the engine sends of its own accord
AttachFrames == {FrameMessage, FrameWatched, FrameErrorIn, FrameUnknown}

\* attach is called: watches() and messages() have subscribed their topics
\* and the task is about to be polled
Attached ==
    [on |-> TRUE,
     stream |-> <<>>,        \* the items of the inbound stream, not yet popped
     reader |-> FALSE,       \* the inbound stream holds the waker of the task
     out |-> <<>>,           \* the lines written to the engine
     answered |-> FALSE,     \* the engine has answered the quit
     unsolicited |-> 0,      \* how many lines it sent of its own accord
     wakers |-> subscribe(subscribe(<<>>, WatchTopic).wakers,
                          MessageTopic).wakers,
     woken |-> TRUE,         \* the task has been woken and will be polled
     turn |-> "out",         \* the future that is polled next
     watches |-> "live",     \* the stream of watches()
     messages |-> "live",    \* the stream of messages()
     received |-> 0,         \* how many Requests it has yielded
     handling |-> {},        \* the Requests whose on_message is running
     ready |-> {},           \* those whose on_message has returned Ok
     acked |-> {},           \* the Requests ack'ed
     install |-> "start",    \* where module.install is
     signalled |-> FALSE,    \* the signal it waits for was raised
     flushed |-> FALSE,      \* the flush of quit's line can complete
     result |-> "none"]      \* what attach returned

AttachInit ==
    /\ Constructed
    /\ fmt = NoCall
    /\ mt = NoThreads
    /\ hub = NoHub
    /\ att = Attached

\* Sub::poll_next for the Sub of topic `self`
AttOutcome(self) == poll_next(att.wakers, self, att.stream, FALSE)

\* the state after that poll: its waker registered, the slot it woke
\* emptied and the task woken if the slot held its waker, the item popped,
\* the waker handed to the inbound stream
Settled(self, r) ==
    [att EXCEPT
       !.wakers = IF r.wake # NoTopic
                  THEN [@ EXCEPT ![self] = AttachTask, ![r.wake] = NoTask]
                  ELSE IF r.register THEN [@ EXCEPT ![self] = AttachTask]
                  ELSE @,
       !.woken = @ \/ (r.wake # NoTopic /\ att.wakers[r.wake] # NoTask),
       !.stream = IF r.pop THEN Tail(@) ELSE @,
       !.reader = @ \/ r.pending_on_stream]

\* default_response of the item at the head of the stream
Defaulted(a) ==
    IF DefaultResponse[Head(att.stream).line].send
    THEN [a EXCEPT !.out = Append(@, DefaultResponse[Head(att.stream).line].item)]
    ELSE a

\* the executor polls the task
AttachPoll ==
    /\ att.on /\ att.result = "none"
    /\ att.turn = "out" /\ att.woken
    /\ att' = [att EXCEPT !.woken = FALSE, !.turn = "watches"]
    /\ UNCHANGED << engine, fmt, mt, hub >>

\* one turn of the loop of Engine::subscribe for the stream of topic
\* `self`: `a` is the state when the stream has ended, `b` when it has
\* yielded an item, `next` the future polled after this one
Unfold(self, r, a, b, next) ==
    CASE r.result = "Pending" -> att' = [Settled(self, r) EXCEPT !.turn = next]
      [] r.result = "None" ->
            att' = [a EXCEPT !.wakers = drop(@, self), !.turn = next]
      [] r.result = "NoMatch" -> att' = Defaulted(Settled(self, r))
      [] r.result = "Match" -> att' = b
      [] OTHER -> att' = [Settled(self, r) EXCEPT !.result = "err", !.turn = "out"]

\* watches().try_for_each_concurrent(on_watch): the stream is polled until
\* it is pending or has ended; on_watch returns Ok
PollWatches ==
    /\ att.on /\ att.turn = "watches"
    /\ IF att.watches = "ended"
       THEN att' = [att EXCEPT !.turn = "messages"]
       ELSE Unfold(WatchTopic, AttOutcome(WatchTopic),
                   [Settled(WatchTopic, AttOutcome(WatchTopic))
                       EXCEPT !.watches = "ended"],
                   Settled(WatchTopic, AttOutcome(WatchTopic)),
                   "messages")
    /\ UNCHANGED << engine, fmt, mt, hub >>

\* messages().try_for_each_concurrent(..): the same, and on_message is
\* called with each Request
PollMessages ==
    /\ att.on /\ att.turn = "messages"
    /\ IF att.messages = "ended"
       THEN att' = [att EXCEPT !.turn = "handlers"]
       ELSE Unfold(MessageTopic, AttOutcome(MessageTopic),
                   [Settled(MessageTopic, AttOutcome(MessageTopic))
                       EXCEPT !.messages = "ended"],
                   [Settled(MessageTopic, AttOutcome(MessageTopic))
                       EXCEPT !.received = @ + 1,
                              !.handling = @ \cup {att.received + 1}],
                   "handlers")
    /\ UNCHANGED << engine, fmt, mt, hub >>

\* the lock of Engine::tx is held: quit's send is waiting for its flush
TxHeld == att.install = "flush"

\* on_message has returned Ok(processed) for the Request n: ack writes its
\* line
AckRequest(n, processed) ==
    /\ att.on /\ att.turn = "handlers"
    /\ n \in att.ready /\ ~TxHeld
    /\ att' = [att EXCEPT
                 !.out = Append(@, AckOf[FrameMessage][processed]),
                 !.handling = @ \ {n},
                 !.ready = @ \ {n},
                 !.acked = @ \cup {n}]
    /\ UNCHANGED << engine, fmt, mt, hub >>

\* the other handlers are pending
HandlersPolled ==
    /\ att.on /\ att.turn = "handlers"
    /\ att.ready = {} \/ TxHeld
    /\ att' = [att EXCEPT !.turn = "install"]
    /\ UNCHANGED << engine, fmt, mt, hub >>

\* module.install: once the signal is raised it calls quit(), which writes
\* its line, flushes it, subscribes QuitAck, waits for the ack and calls
\* unsubscribe_all
PollInstall ==
    /\ att.on /\ att.turn = "install"
    /\ CASE att.install = "start" /\ att.signalled ->
                \E flushed \in BOOLEAN :
                    att' = [att EXCEPT !.out = Append(@, quit),
                                       !.install = "flush",
                                       !.flushed = flushed]
         [] att.install = "flush" /\ att.flushed ->
                att' = [att EXCEPT
                          !.wakers = subscribe(@, QuitTopic).wakers,
                          !.install = "wait",
                          !.woken = @ \/ att.ready # {}]
         [] att.install = "wait" ->
                Unfold(QuitTopic, AttOutcome(QuitTopic),
                       [att EXCEPT !.result = "err", !.turn = "out"],
                       [Settled(QuitTopic, AttOutcome(QuitTopic)) EXCEPT
                          !.wakers = unsubscribe_all(drop(@, QuitTopic)).wakers,
                          !.woken = @ \/ unsubscribe_all(
                                      drop(Settled(QuitTopic,
                                                   AttOutcome(QuitTopic)).wakers,
                                           QuitTopic)).woken # {},
                          !.install = "done",
                          !.turn = "end"],
                       "end")
         [] OTHER -> att' = [att EXCEPT !.turn = "end"]
    /\ UNCHANGED << engine, fmt, mt, hub >>

\* try_join!: Ok once the three futures have returned Ok
AttachPolled ==
    /\ att.on /\ att.turn = "end"
    /\ IF /\ att.watches = "ended" /\ att.messages = "ended"
          /\ att.handling = {} /\ att.install = "done"
       THEN att' = [att EXCEPT !.turn = "out", !.result = "ok"]
       ELSE att' = [att EXCEPT !.turn = "out"]
    /\ UNCHANGED << engine, fmt, mt, hub >>

\* the steps of the task of attach
AttachRun ==
    \/ AttachPoll
    \/ PollWatches
    \/ PollMessages
    \/ \E n \in 1..MaxUnsolicited, processed \in BOOLEAN : AckRequest(n, processed)
    \/ HandlersPolled
    \/ PollInstall
    \/ AttachPolled

\* the inbound stream has a line more: the waker it holds is woken
Inbound(line) ==
    [att EXCEPT !.stream = Append(@, OkItem(line)),
                !.woken = @ \/ att.reader,
                !.reader = FALSE]

\* the engine sends a line of its own accord
AttachArrive(line) ==
    /\ att.on /\ att.unsolicited < MaxUnsolicited
    /\ att' = [Inbound(line) EXCEPT !.unsolicited = @ + 1]
    /\ UNCHANGED << engine, fmt, mt, hub >>

\* the engine answers the quit it has read
AttachQuitAck ==
    /\ att.on /\ ~att.answered
    /\ \E i \in 1..Len(att.out) : att.out[i] = quit
    /\ att' = [Inbound(FrameQuitAck) EXCEPT !.answered = TRUE]
    /\ UNCHANGED << engine, fmt, mt, hub >>

\* the signal module.install waits for is raised
Signal ==
    /\ att.on /\ ~att.signalled
    /\ att' = [att EXCEPT !.signalled = TRUE, !.woken = TRUE]
    /\ UNCHANGED << engine, fmt, mt, hub >>

\* the writer can complete the flush
FlushReady ==
    /\ att.on /\ att.install = "flush" /\ ~att.flushed
    /\ att' = [att EXCEPT !.flushed = TRUE, !.woken = TRUE]
    /\ UNCHANGED << engine, fmt, mt, hub >>

\* on_message returns Ok for the Request n
HandlerDone(n) ==
    /\ att.on /\ n \in att.handling \ att.ready
    /\ att' = [att EXCEPT !.ready = @ \cup {n}, !.woken = TRUE]
    /\ UNCHANGED << engine, fmt, mt, hub >>

AttachNext ==
    \/ AttachRun
    \/ \E line \in AttachFrames : AttachArrive(line)
    \/ AttachQuitAck
    \/ Signal
    \/ FlushReady
    \/ \E n \in 1..MaxUnsolicited : HandlerDone(n)

AttachSpec == AttachInit /\ [][AttachNext]_vars

\* the task is polled when it is woken, the signal is raised, every
\* handler returns, every flush completes and the engine answers the quit
FairAttachSpec ==
    /\ AttachSpec
    /\ WF_vars(AttachRun)
    /\ WF_vars(Signal)
    /\ WF_vars(FlushReady)
    /\ WF_vars(AttachQuitAck)
    /\ WF_vars(\E n \in 1..MaxUnsolicited : HandlerDone(n))

====
